---- MODULE Spec2Model ----
(***************************************************************************)
(* Model of the furniture connection-inference and hole-mapping engine:    *)
(*   - src/app.py   : processar_json_entrada and the stages it calls       *)
(*   - src/legs.py  : add_connection_area, the create_*_connection_area    *)
(*                    helpers, create_systematic_connection_areas and      *)
(*                    clean_holes_outside_connection_areas                 *)
(*                                                                         *)
(* All lengths are integers in hundredths of a millimetre, so that the     *)
(* one-decimal rounding of the program is a real operation on them.        *)
(***************************************************************************)
EXTENDS Integers, Sequences, FiniteSets, TLC

VARIABLES
    pieces,       \* app.py: pecas_3d, the list of part records
    connections,  \* app.py: the list returned by detect_connections_by_proximity
    pc,           \* app.py: position of processar_json_entrada between stages
    views,        \* app.py: the table of extrair_views_por_peca, read by the
                  \* build loop only; empty where a run starts from built parts
    lpieces,      \* legs.py: the list of Piece objects
    lpc           \* legs.py: position of the legs.py driver

vars == <<pieces, connections, pc, views, lpieces, lpc>>

-----------------------------------------------------------------------------
(* Arithmetic helpers *)

MM(n) == n * 100

Abs(a) == IF a < 0 THEN 0 - a ELSE a

Min(a, b) == IF a <= b THEN a ELSE b

Max(a, b) == IF a >= b THEN a ELSE b

\* Python int(): truncation toward zero of a value given in hundredths,
\* result again in hundredths
IntTrunc(v) == IF v >= 0 THEN (v \div 100) * 100 ELSE 0 - (((0 - v) \div 100) * 100)

\* dx^2 + dy^2 > d^2, computed without leaving 32-bit integers
DistGreater(dx, dy, d) ==
    IF Abs(dx) > d \/ Abs(dy) > d THEN TRUE
    ELSE (dx * dx) + (dy * dy) > d * d

\* dx^2 + dy^2 < d^2
DistLess(dx, dy, d) ==
    IF Abs(dx) >= d \/ Abs(dy) >= d THEN FALSE
    ELSE (dx * dx) + (dy * dy) < d * d

\* the function s on 1..Len(s), written out as a tuple
AsSeq(s) == s \o <<>>

SeqToSet(s) == {s[i] : i \in 1..Len(s)}

RECURSIVE SelectSeqBy(_, _)
SelectSeqBy(s, keep) ==
    IF s = <<>> THEN <<>>
    ELSE IF Head(s) \in keep THEN <<Head(s)>> \o SelectSeqBy(Tail(s), keep)
         ELSE SelectSeqBy(Tail(s), keep)

-----------------------------------------------------------------------------
(* app.py configuration *)

LEG_PATTERNS ==
    { <<"p","e","r","n","a">>, <<"l","e","g">>, <<"p","a","t","a">>,
      <<"p","i","e","r","n","a">>, <<"s","u","p","p","o","r","t">>,
      <<"s","u","p","o","r","t","e">> }

PANEL_PATTERNS ==
    { <<"t","a","m","p","o">>, <<"t","o","p">>, <<"s","u","r","f","a","c","e">>,
      <<"p","a","n","e","l">>, <<"t","a","b","l","e","t","o","p">>,
      <<"m","e","s","a">>, <<"t","a","b","l","e">> }

DEFAULT_CONNECTION_AREA_WIDTH == 20

DEFAULT_CONNECTION_AREA_HEIGHT == 200

\* connection_id=None, depth=None, diameter=None of criar_hole; a singer area
\* has no connectionId key
None == 0

\* Python's `pattern in name`
Contains(name, pat) ==
    \E i \in 1..(Len(name) - Len(pat) + 1) : SubSeq(name, i, i + Len(pat) - 1) = pat

-----------------------------------------------------------------------------
(* app.py steps 1-3: rounding, dimensions, the part record *)

\* The values x.x5 (in hundredths) on which round(value, 1) of the binary
\* float goes up; every other tie met by the model goes down.
RoundsUpAtTie == {475, 915, 1015, 10475}

\* round(valor, 1)
Round1(v) ==
    LET q == v \div 10
        m == v % 10
    IN  IF m < 5 THEN q * 10
        ELSE IF m > 5 THEN (q + 1) * 10
        ELSE IF v \in RoundsUpAtTie THEN (q + 1) * 10 ELSE q * 10

\* a one-decimal value within 0.15 of a whole number becomes that number
Arredondar(valor) ==
    LET arredondado == Round1(valor)
        m == arredondado % 100
    IN  IF m <= 10 THEN arredondado - m
        ELSE IF m >= 90 THEN arredondado + (100 - m)
        ELSE arredondado

\* sorted(dims, reverse=True) of three numbers
SortDesc3(a, b, c) ==
    LET hi == Max(a, Max(b, c))
        lo == Min(a, Min(b, c))
    IN  <<hi, (a + b + c) - hi - lo, lo>>

determine_dimensions(dims) ==
    LET s == SortDesc3(dims[1], dims[2], dims[3])
    IN  [height |-> s[1], length |-> s[2], thickness |-> s[3],
         half_thickness |-> Arredondar(s[3] \div 2)]

FaceNames == <<"main", "other_main", "top", "bottom", "left", "right">>

FaceSet == SeqToSet(FaceNames)

EmptyFace == [holes |-> <<>>, connectionAreas |-> <<>>]

\* the record construir_peca_3d returns once the three views are present
construir_peca_3d(nome, pos, dims3) ==
    LET d == determine_dimensions(dims3)
    IN  [name |-> nome, position |-> pos,
         length |-> d.length, height |-> d.height, thickness |-> d.thickness,
         half_thickness |-> d.half_thickness,
         faces |-> [f \in FaceSet |-> EmptyFace]]

-----------------------------------------------------------------------------
(* app.py step 4: systematic holes *)

criar_hole(x, y, tipo, ferragem, connection_id, depth, diameter) ==
    [x |-> Arredondar(x), y |-> Arredondar(y), type |-> tipo,
     ferragem |-> ferragem, connectionId |-> connection_id,
     depth |-> depth, diameter |-> diameter]

is_leg_piece(piece) ==
    \/ \E p \in LEG_PATTERNS : Contains(piece.name, p)
    \/ /\ Abs(piece.length - piece.height) < MM(50)
       /\ Max(piece.length, piece.height) < MM(250)

is_panel_piece(piece) ==
    \/ \E p \in PANEL_PATTERNS : Contains(piece.name, p)
    \/ ~is_leg_piece(piece)

\* The pairs of coordinates exactly 8 mm apart, among those the model meets,
\* whose difference as binary floats is below 8.0 (10.4 - 18.4 gives
\* -7.999999999999998).
DifferenceBelow8 == {<<1040, 1840>>}

\* abs(a - b) < 8.0
CloserThan8(a, b) == Abs(a - b) < MM(8) \/ <<a, b>> \in DifferenceBelow8

add_hole_if_not_exists(face_holes, x, y, hole_type, hardware, depth, diameter) ==
    IF \E i \in 1..Len(face_holes) :
           /\ CloserThan8(face_holes[i].x, x)
           /\ CloserThan8(face_holes[i].y, y)
    THEN face_holes
    ELSE Append(face_holes, criar_hole(x, y, hole_type, hardware, None, depth, diameter))

\* the intermediate hole added from a distance of exactly 200 mm on
add_intermediate_holes_from_200(face_holes, p1, p2, hole_type, hardware, depth, diameter) ==
    IF ~DistLess(p2[1] - p1[1], p2[2] - p1[2], MM(200))
    THEN add_hole_if_not_exists(face_holes, (p1[1] + p2[1]) \div 2, (p1[2] + p2[2]) \div 2,
                                hole_type, hardware, depth, diameter)
    ELSE face_holes

add_intermediate_holes_if_needed(face_holes, p1, p2, hole_type, hardware, depth, diameter) ==
    IF DistGreater(p2[1] - p1[1], p2[2] - p1[2], MM(200))
    THEN add_hole_if_not_exists(face_holes, (p1[1] + p2[1]) \div 2, (p1[2] + p2[2]) \div 2,
                                hole_type, hardware, depth, diameter)
    ELSE face_holes

\* add_hole_if_not_exists over a list of positions, in order
RECURSIVE AddCorners(_, _, _, _, _, _)
AddCorners(face_holes, positions, hole_type, hardware, depth, diameter) ==
    IF positions = <<>> THEN face_holes
    ELSE AddCorners(add_hole_if_not_exists(face_holes, Head(positions)[1], Head(positions)[2],
                                           hole_type, hardware, depth, diameter),
                    Tail(positions), hole_type, hardware, depth, diameter)

\* add_intermediate_holes_if_needed over a list of index pairs, in order
RECURSIVE AddIntermediates(_, _, _, _, _, _, _)
AddIntermediates(face_holes, corners, pairs, hole_type, hardware, depth, diameter) ==
    IF pairs = <<>> THEN face_holes
    ELSE AddIntermediates(
             add_intermediate_holes_if_needed(face_holes, corners[Head(pairs)[1]],
                                              corners[Head(pairs)[2]],
                                              hole_type, hardware, depth, diameter),
             corners, Tail(pairs), hole_type, hardware, depth, diameter)

\* the leg branch: corner_positions of the top face
LegCornerPositions(peca) ==
    LET l  == peca.length
        ft == peca.half_thickness
        min_spacing == MM(8)
        hole1_x == Max(ft, MM(3))
        hole2_x == Min(l - ft, l - MM(3))
    IN  IF l >= (2 * ft) + min_spacing THEN << <<ft, ft>>, <<l - ft, ft>> >>
        ELSE IF l >= MM(15)
             THEN IF hole2_x - hole1_x >= min_spacing
                  THEN << <<hole1_x, ft>>, <<hole2_x, ft>> >>
                  ELSE << <<l \div 2, ft>> >>
             ELSE << <<l \div 2, ft>> >>

\* the panel branch, main and other_main
MainCornerPositions(peca) ==
    LET l  == peca.length
        h  == peca.height
        ft == peca.half_thickness
    IN  << <<ft, ft>>, <<ft, h - ft>>, <<l - ft, ft>>, <<l - ft, h - ft>> >>

MainEdgePairs == << <<1, 3>>, <<2, 4>>, <<1, 2>>, <<3, 4>> >>

\* the panel branch, top, bottom, left and right
ThicknessFaceWidth(peca, face_name) ==
    IF face_name \in {"top", "bottom"} THEN peca.length ELSE peca.thickness

ThicknessFaceHeight(peca, face_name) ==
    IF face_name \in {"top", "bottom"} THEN peca.thickness ELSE peca.height

ThicknessCornerPositions(peca, face_name) ==
    LET w  == ThicknessFaceWidth(peca, face_name)
        fh == ThicknessFaceHeight(peca, face_name)
        ft == peca.half_thickness
    IN  << <<ft, ft>>, <<w - ft, ft>>, <<ft, fh - ft>>, <<w - ft, fh - ft>> >>

ThicknessEdgePairs == << <<1, 2>>, <<3, 4>>, <<1, 3>>, <<2, 4>> >>

SystematicFaceHoles(peca, face_name, holes) ==
    IF face_name \in {"main", "other_main"}
    THEN AddIntermediates(
             AddCorners(holes, MainCornerPositions(peca), "flap_corner",
                        "dowel_M_with_glue", 10, 8),
             MainCornerPositions(peca), MainEdgePairs, "flap_central",
             "dowel_M_with_glue", 10, 8)
    ELSE AddIntermediates(
             AddCorners(holes, ThicknessCornerPositions(peca, face_name), "top_corner",
                        "glue", 20, None),
             ThicknessCornerPositions(peca, face_name), ThicknessEdgePairs, "top_central",
             "glue", 20, None)

adicionar_holes_sistematicos(peca) ==
    IF is_leg_piece(peca)
    THEN [peca EXCEPT !.faces["top"].holes =
              AddCorners(peca.faces["top"].holes, LegCornerPositions(peca),
                         "top_corner", "glue", 20, None)]
    ELSE [peca EXCEPT !.faces =
              [f \in FaceSet |->
                  [holes |-> SystematicFaceHoles(peca, f, peca.faces[f].holes),
                   connectionAreas |-> peca.faces[f].connectionAreas]]]

-----------------------------------------------------------------------------
(* app.py step 5: connections *)

face_orientations(face_name) ==
    IF face_name \in {"main", "other_main"} THEN "y"
    ELSE IF face_name \in {"top", "bottom"} THEN "z"
    ELSE "x"

\* face_bounds of map_piece_points: the min and max corner of a face
face_bounds(piece, face_name) ==
    LET x == piece.position.x
        y == piece.position.y
        z == piece.position.z
        l == piece.length
        h == piece.height
        t == piece.thickness
    IN  CASE face_name = "main"       -> [min |-> <<x, y, z>>,     max |-> <<x + l, y, z + t>>]
          [] face_name = "other_main" -> [min |-> <<x, y + h, z>>, max |-> <<x + l, y + h, z + t>>]
          [] face_name = "top"        -> [min |-> <<x, y, z + t>>, max |-> <<x + l, y + h, z + t>>]
          [] face_name = "bottom"     -> [min |-> <<x, y, z>>,     max |-> <<x + l, y + h, z>>]
          [] face_name = "left"       -> [min |-> <<x, y, z>>,     max |-> <<x, y + h, z + t>>]
          [] OTHER                    -> [min |-> <<x + l, y, z>>, max |-> <<x + l, y + h, z + t>>]

\* the distance of two parallel faces, or -1 where the function returns None
NoDistance == 0 - 1

calculate_face_to_face_distance(bounds1, bounds2, face1_name, face2_name) ==
    LET orient1 == face_orientations(face1_name)
        orient2 == face_orientations(face2_name)
    IN  IF orient1 # orient2 THEN NoDistance
        ELSE IF orient1 = "x"
        THEN IF face1_name = "right" /\ face2_name = "left"
             THEN Abs(bounds1.max[1] - bounds2.min[1])
             ELSE IF face1_name = "left" /\ face2_name = "right"
             THEN Abs(bounds2.max[1] - bounds1.min[1])
             ELSE IF face1_name = "left" THEN Abs(bounds1.min[1] - bounds2.min[1])
             ELSE Abs(bounds1.max[1] - bounds2.max[1])
        ELSE IF orient1 = "y"
        THEN IF face1_name = "other_main" /\ face2_name = "main"
             THEN Abs(bounds1.min[2] - bounds2.max[2])
             ELSE IF face1_name = "main" /\ face2_name = "other_main"
             THEN Abs(bounds2.min[2] - bounds1.max[2])
             ELSE NoDistance
        ELSE IF face1_name = "top" /\ face2_name = "bottom"
             THEN Abs(bounds1.min[3] - bounds2.max[3])
             ELSE IF face1_name = "bottom" /\ face2_name = "top"
             THEN Abs(bounds2.min[3] - bounds1.max[3])
             ELSE IF face1_name = "top" THEN Abs(bounds1.max[3] - bounds2.max[3])
             ELSE Abs(bounds1.min[3] - bounds2.min[3])

create_spatial_overlap_area(leg_piece, panel_piece, leg_index, total_legs) ==
    LET panel_width == panel_piece.length
        margin == panel_width \div 10
        available_width == panel_width - (2 * margin)
        connection_x ==
            IF total_legs = 1 THEN panel_width \div 2
            ELSE IF total_legs = 2
                 THEN IF leg_index = 0 THEN (panel_width \div 10) + MM(10)
                      ELSE ((panel_width * 9) \div 10) + MM(10)
                 ELSE margin + ((leg_index * available_width) \div (total_legs - 1))
    IN  [x_min |-> connection_x - MM(10), x_max |-> connection_x + MM(10),
         y_min |-> 0, y_max |-> MM(50), connection_x |-> connection_x]

\* indices (1-based) of the parts satisfying a predicate, in list order
LegIndices(ps) == SelectSeqBy([i \in 1..Len(ps) |-> i], {i \in 1..Len(ps) : is_leg_piece(ps[i])})

PanelIndices(ps) == SelectSeqBy([i \in 1..Len(ps) |-> i], {i \in 1..Len(ps) : is_panel_piece(ps[i])})

\* spatial_mapping: position of a leg in the stable sort of the legs by x
spatial_mapping(ps, legs, k) ==
    Cardinality({j \in 1..Len(legs) :
                    \/ ps[legs[j]].position.x < ps[legs[k]].position.x
                    \/ (ps[legs[j]].position.x = ps[legs[k]].position.x /\ j < k)})

detect_connections_by_proximity(ps) ==
    LET legs   == LegIndices(ps)
        panels == PanelIndices(ps)
        nl     == Len(legs)
    IN  [n \in 1..(Len(panels) * nl) |->
            LET pi == ((n - 1) \div nl) + 1
                k  == ((n - 1) % nl) + 1
            IN  [id |-> n, piece1 |-> legs[k], piece2 |-> panels[pi],
                 face1 |-> "top", face2 |-> "main",
                 overlap_area |-> create_spatial_overlap_area(
                     ps[legs[k]], ps[panels[pi]], spatial_mapping(ps, legs, k), nl)]]

-----------------------------------------------------------------------------
(* app.py steps 7, 11, 12: connection areas *)

Area(x_min, y_min, x_max, y_max, fill, connection_id) ==
    [x_min |-> x_min, y_min |-> y_min, x_max |-> x_max, y_max |-> y_max,
     fill |-> fill, connectionId |-> connection_id]

_should_create_conn_area(piece, face_name) ==
    IF is_leg_piece(piece) /\ face_name = "top" THEN TRUE
    ELSE IF ~is_leg_piece(piece) /\ face_name \in {"main", "other_main"} THEN TRUE
    ELSE FALSE

\* sorted(leg_positions): insertion of one value into an ascending list
RECURSIVE InsertSorted(_, _)
InsertSorted(s, v) ==
    IF s = <<>> THEN <<v>>
    ELSE IF v < Head(s) THEN <<v>> \o s
         ELSE <<Head(s)>> \o InsertSorted(Tail(s), v)

RECURSIVE SortAsc(_)
SortAsc(s) == IF s = <<>> THEN <<>> ELSE InsertSorted(SortAsc(Tail(s)), Head(s))

create_panel_connection_areas_from_spatial_data(piece, face_name, conns) ==
    LET panel_width == piece.length
        found == [i \in 1..Len(conns) |-> conns[i].overlap_area.connection_x]
        leg_positions ==
            SortAsc(IF found = <<>>
                    THEN << (panel_width \div 10) + MM(10), ((panel_width * 9) \div 10) - MM(10) >>
                    ELSE found)
        areas == [i \in 1..Len(leg_positions) |->
                     Area(IntTrunc(leg_positions[i] - MM(10)), 0,
                          IntTrunc(leg_positions[i] + MM(10)),
                          MM(DEFAULT_CONNECTION_AREA_HEIGHT), "black", 1)]
    IN  [piece EXCEPT !.faces[face_name].connectionAreas = @ \o areas]

create_leg_top_connection_area(piece, face_name) ==
    [piece EXCEPT !.faces[face_name].connectionAreas =
        Append(@, Area(0, 0, IntTrunc(piece.length), IntTrunc(piece.thickness), "black", 1))]

create_spatial_connection_area(piece, face_name, conns) ==
    IF face_name \in {"main", "other_main"}
    THEN IF ~is_leg_piece(piece)
         THEN create_panel_connection_areas_from_spatial_data(piece, face_name, conns)
         ELSE piece
    ELSE IF face_name = "top" /\ is_leg_piece(piece)
         THEN create_leg_top_connection_area(piece, face_name)
         ELSE piece

\* the loop of create_aligned_connection_areas from connection i on;
\* created is the set created_areas of (name, face) keys
RECURSIVE AlignedFrom(_, _, _, _)
AlignedFrom(ps, conns, i, created) ==
    IF i > Len(conns) THEN ps
    ELSE LET conn == conns[i]
             key1 == <<ps[conn.piece1].name, conn.face1>>
             do1  == _should_create_conn_area(ps[conn.piece1], conn.face1) /\ key1 \notin created
             ps1  == IF do1
                     THEN [ps EXCEPT ![conn.piece1] =
                               create_spatial_connection_area(@, conn.face1, conns)]
                     ELSE ps
             created1 == IF do1 THEN created \cup {key1} ELSE created
             key2 == <<ps1[conn.piece2].name, conn.face2>>
             do2  == _should_create_conn_area(ps1[conn.piece2], conn.face2) /\ key2 \notin created1
             ps2  == IF do2
                     THEN [ps1 EXCEPT ![conn.piece2] =
                               create_spatial_connection_area(@, conn.face2, conns)]
                     ELSE ps1
             created2 == IF do2 THEN created1 \cup {key2} ELSE created1
         IN  AlignedFrom(ps2, conns, i + 1, created2)

create_aligned_connection_areas(ps, conns) == AlignedFrom(ps, conns, 1, {})

create_simple_connection_area_for_piece(piece, face_name, conn_id) ==
    LET l == piece.length
        h == piece.height
        t == piece.thickness
        left_x_start  == IntTrunc(l \div 10)
        right_x_start == IntTrunc((l * 9) \div 10)
        stripe_length == (h * 67) \div 100
        added ==
            IF face_name \in {"main", "other_main"}
            THEN << Area(left_x_start, 0, left_x_start + MM(DEFAULT_CONNECTION_AREA_WIDTH),
                         MM(DEFAULT_CONNECTION_AREA_HEIGHT), "black", 1),
                    Area(right_x_start, 0, right_x_start + MM(DEFAULT_CONNECTION_AREA_WIDTH),
                         MM(DEFAULT_CONNECTION_AREA_HEIGHT), "black", 1) >>
            ELSE IF face_name = "top"
            THEN IF is_leg_piece(piece)
                 THEN << Area(0, 0, IntTrunc(l), IntTrunc(t), "black", 1) >>
                 ELSE << Area(IntTrunc(t), 0, IntTrunc(t + t), IntTrunc(stripe_length), "black", 1),
                         Area(IntTrunc(l - t), 0, IntTrunc(l), IntTrunc(stripe_length), "black", 1) >>
            ELSE IF face_name \in {"left", "right"}
            THEN << Area(0, h - t, t, h, "black", 1),
                    Area(0, 0, IntTrunc(t), t, "black", 1) >>
            ELSE <<>>
    IN  [piece EXCEPT !.faces[face_name].connectionAreas = @ \o added]

\* piece_connections of one part: the (id, face) pairs of its connections
piece_connections(ps, conns, piece) ==
    LET mine == {i \in 1..Len(conns) :
                    \/ ps[conns[i].piece1].name = piece.name
                    \/ ps[conns[i].piece2].name = piece.name}
        idx == SelectSeqBy([i \in 1..Len(conns) |-> i], mine)
    IN  [k \in 1..Len(idx) |->
            IF ps[conns[idx[k]].piece1].name = piece.name
            THEN <<conns[idx[k]].id, conns[idx[k]].face1>>
            ELSE <<conns[idx[k]].id, conns[idx[k]].face2>>]

\* the panel branch: one face of faces_to_create after the other
RECURSIVE EnsureFaces(_, _)
EnsureFaces(piece, face_list) ==
    IF face_list = <<>> THEN piece
    ELSE EnsureFaces(
             IF piece.faces[Head(face_list)].connectionAreas = <<>>
             THEN create_simple_connection_area_for_piece(piece, Head(face_list), 1)
             ELSE piece,
             Tail(face_list))

\* the panel branch taken for every part, legs included: an area on each
\* face the part's connections name
EnsureOnePieceAsPanel(ps, conns, piece) ==
    LET pcs == piece_connections(ps, conns, piece)
        faces_to_create == {pcs[k][2] : k \in 1..Len(pcs)}
    IN  EnsureFaces(piece, SelectSeqBy(FaceNames, faces_to_create))

EnsureOnePiece(ps, conns, piece) ==
    LET pcs == piece_connections(ps, conns, piece)
        faces_to_create == {pcs[k][2] : k \in 1..Len(pcs)}
    IN  IF is_leg_piece(piece)
        THEN IF piece.faces["top"].connectionAreas = <<>> /\ pcs # <<>>
             THEN create_simple_connection_area_for_piece(piece, "top", pcs[1][1])
             ELSE piece
        ELSE EnsureFaces(piece, SelectSeqBy(FaceNames, faces_to_create))

ensure_all_pieces_have_connection_areas(ps, conns) ==
    [i \in 1..Len(ps) |-> EnsureOnePiece(ps, conns, ps[i])]

-----------------------------------------------------------------------------
(* app.py steps 6, 8, 9, 10: hole mapping *)

InArea(area, hole) ==
    /\ area.x_min <= hole.x /\ hole.x <= area.x_max
    /\ area.y_min <= hole.y /\ hole.y <= area.y_max

InAnyArea(areas, hole) == \E i \in 1..Len(areas) : InArea(areas[i], hole)

\* the holes of a list that satisfy a predicate given as a set of indices
KeepHoles(holes, keep) ==
    LET idx == SelectSeqBy([i \in 1..Len(holes) |-> i], keep)
    IN  [k \in 1..Len(idx) |-> holes[idx[k]]]

\* the classification that counts edges: edge-central only for a point near
\* exactly one edge
classify_by_edge_count(x, y, piece, face_name) ==
    LET ft == piece.half_thickness
        width  == IF face_name \in {"main", "other_main", "top", "bottom"}
                  THEN piece.length ELSE piece.thickness
        height == IF face_name \in {"main", "other_main", "left", "right"}
                  THEN piece.height ELSE piece.thickness
        is_left_edge   == Abs(x - ft) < MM(2)
        is_right_edge  == Abs(x - (width - ft)) < MM(2)
        is_bottom_edge == Abs(y - ft) < MM(2)
        is_top_edge    == Abs(y - (height - ft)) < MM(2)
        count == Cardinality({e \in {<<1, is_left_edge>>, <<2, is_right_edge>>,
                                     <<3, is_bottom_edge>>, <<4, is_top_edge>>} : e[2]})
        prefix_corner  == IF face_name \in {"main", "other_main"} THEN "flap_corner" ELSE "top_corner"
        prefix_central == IF face_name \in {"main", "other_main"} THEN "flap_central" ELSE "top_central"
    IN  IF (is_left_edge \/ is_right_edge) /\ (is_bottom_edge \/ is_top_edge) THEN prefix_corner
        ELSE IF count = 1 THEN prefix_central
        ELSE "face_central"

classify_hole_type(x, y, piece, face_name) ==
    LET ft == piece.half_thickness
        width  == IF face_name \in {"main", "other_main", "top", "bottom"}
                  THEN piece.length ELSE piece.thickness
        height == IF face_name \in {"main", "other_main", "left", "right"}
                  THEN piece.height ELSE piece.thickness
        is_left_edge   == Abs(x - ft) < MM(2)
        is_right_edge  == Abs(x - (width - ft)) < MM(2)
        is_bottom_edge == Abs(y - ft) < MM(2)
        is_top_edge    == Abs(y - (height - ft)) < MM(2)
        prefix_corner  == IF face_name \in {"main", "other_main"} THEN "flap_corner" ELSE "top_corner"
        prefix_central == IF face_name \in {"main", "other_main"} THEN "flap_central" ELSE "top_central"
    IN  IF (is_left_edge \/ is_right_edge) /\ (is_bottom_edge \/ is_top_edge) THEN prefix_corner
        ELSE IF is_left_edge \/ is_right_edge \/ is_bottom_edge \/ is_top_edge THEN prefix_central
        ELSE "face_central"

\* the is_leg_piece that map_holes_between_pieces defines for its clearing loop
is_leg_piece_local(piece) ==
    \/ Contains(piece.name, <<"p","e","r","n","a">>)
    \/ /\ Abs(piece.length - piece.height) < MM(50)
       /\ Max(piece.length, piece.height) < MM(250)

\* the clearing loop at the start of map_holes_between_pieces, for one part
ClearHolesInAreas(piece) ==
    IF is_leg_piece_local(piece) THEN piece
    ELSE [piece EXCEPT !.faces =
             [f \in FaceSet |->
                 LET face == piece.faces[f]
                 IN  IF face.connectionAreas # <<>>
                     THEN [holes |-> KeepHoles(face.holes,
                                         {i \in 1..Len(face.holes) :
                                             ~InAnyArea(face.connectionAreas, face.holes[i])}),
                           connectionAreas |-> face.connectionAreas]
                     ELSE face]]

\* the first area of the list that suits the side of the leg hole, 0 if none
TargetArea(connection_areas, leg_rel_x_below_half) ==
    LET ok == {i \in 1..Len(connection_areas) :
                  LET c2 == connection_areas[i].x_min + connection_areas[i].x_max
                  IN  \/ (leg_rel_x_below_half /\ c2 < 2 * MM(100))
                      \/ (~leg_rel_x_below_half /\ c2 >= 2 * MM(100))}
    IN  IF ok = {} THEN 0 ELSE CHOOSE i \in ok : \A j \in ok : i <= j

\* the body of the loop over leg_holes, from leg hole k on; top_holes is the
\* hole list of the panel face as built so far
RECURSIVE MapLegHolesFrom(_, _, _, _, _, _, _)
MapLegHolesFrom(leg_piece, leg_holes, k, top_piece, top_face, conn_id, top_holes) ==
    IF k > Len(leg_holes) THEN top_holes
    ELSE LET leg_hole == leg_holes[k]
             connection_areas == top_piece.faces[top_face].connectionAreas
             t == TargetArea(connection_areas, 2 * leg_hole.x < leg_piece.length)
             target_area == connection_areas[t]
             hole_x == target_area.x_min + ((target_area.x_max - target_area.x_min) \div 2)
             hole_y == IF conn_id = 1 THEN MM(10) ELSE MM(190)
             area_connection_id == IF hole_x < MM(100) THEN 1 ELSE 2
             mapped_hole == criar_hole(hole_x, hole_y,
                                       classify_hole_type(hole_x, hole_y, top_piece, top_face),
                                       leg_hole.ferragem, area_connection_id,
                                       leg_hole.depth, leg_hole.diameter)
             hole_exists == \E i \in 1..Len(top_holes) :
                                /\ Abs(top_holes[i].x - hole_x) < MM(5)
                                /\ Abs(top_holes[i].y - hole_y) < MM(5)
             next_holes == IF t = 0 \/ hole_exists THEN top_holes
                           ELSE Append(top_holes, mapped_hole)
         IN  MapLegHolesFrom(leg_piece, leg_holes, k + 1, top_piece, top_face, conn_id, next_holes)

\* the part list with the hole list of one face of one part replaced
SetFaceHoles(ps, pi, face_name, new_holes) ==
    [i \in 1..Len(ps) |->
        IF i # pi THEN ps[i]
        ELSE [ps[i] EXCEPT !.faces =
                 [f \in FaceSet |->
                     IF f = face_name
                     THEN [holes |-> new_holes,
                           connectionAreas |-> ps[i].faces[f].connectionAreas]
                     ELSE ps[i].faces[f]]]]

\* leg_hole['connectionId'] = conn_id for every hole of the leg face
RECURSIVE TagHolesFrom(_, _, _)
TagHolesFrom(holes, k, conn_id) ==
    IF k > Len(holes) THEN <<>>
    ELSE <<[holes[k] EXCEPT !.connectionId = conn_id]>> \o TagHolesFrom(holes, k + 1, conn_id)

\* map_leg_holes_to_top_panel on the part list; li and ti index the leg and
\* the panel
map_leg_holes_to_top_panel(ps, li, ti, leg_face, top_face, conn_id) ==
    LET tagged == TagHolesFrom(ps[li].faces[leg_face].holes, 1, conn_id)
        ps1 == SetFaceHoles(ps, li, leg_face, tagged)
    IN  IF ps1[ti].faces[top_face].connectionAreas = <<>> THEN ps1
        ELSE SetFaceHoles(ps1, ti, top_face,
                 MapLegHolesFrom(ps1[li], tagged, 1, ps1[ti], top_face, conn_id,
                                 ps1[ti].faces[top_face].holes))

map_face_holes_proximity(ps, conn) ==
    LET p1 == ps[conn.piece1]
        p2 == ps[conn.piece2]
        conn_areas_1 == p1.faces[conn.face1].connectionAreas
        conn_areas_2 == p2.faces[conn.face2].connectionAreas
    IN  IF conn_areas_1 = <<>> /\ conn_areas_2 = <<>> /\ ~(is_leg_piece(p1) \/ is_leg_piece(p2))
        THEN ps
        ELSE IF is_leg_piece(p1) /\ ~is_leg_piece(p2)
        THEN map_leg_holes_to_top_panel(ps, conn.piece1, conn.piece2, conn.face1, conn.face2, conn.id)
        ELSE IF ~is_leg_piece(p1) /\ is_leg_piece(p2)
        THEN map_leg_holes_to_top_panel(ps, conn.piece2, conn.piece1, conn.face2, conn.face1, conn.id)
        ELSE ps

RECURSIVE MapConnectionsFrom(_, _, _)
MapConnectionsFrom(ps, conns, i) ==
    IF i > Len(conns) THEN ps
    ELSE MapConnectionsFrom(map_face_holes_proximity(ps, conns[i]), conns, i + 1)

map_holes_between_pieces(ps, conns) ==
    MapConnectionsFrom([i \in 1..Len(ps) |-> ClearHolesInAreas(ps[i])], conns, 1)

-----------------------------------------------------------------------------
(* app.py step 13: cleanup *)

\* the types that is_systematic_hole of clean_holes_outside_connection_areas lists
SystematicHoleTypes ==
    {"flap_corner", "flap_central", "top_corner", "top_central", "face_central"}

\* the cleanup as its first comment words it: a hole stays when it is inside
\* an area or is a systematic hole
clean_holes_keeping_systematic(ps) ==
    [i \in 1..Len(ps) |->
        [ps[i] EXCEPT !.faces =
            [f \in FaceSet |->
                LET face == ps[i].faces[f]
                IN  [holes |-> KeepHoles(face.holes,
                                   {k \in 1..Len(face.holes) :
                                       \/ InAnyArea(face.connectionAreas, face.holes[k])
                                       \/ face.holes[k].type \in SystematicHoleTypes}),
                     connectionAreas |-> face.connectionAreas]]]]

clean_holes_outside_connection_areas(ps) ==
    [i \in 1..Len(ps) |->
        [ps[i] EXCEPT !.faces =
            [f \in FaceSet |->
                LET face == ps[i].faces[f]
                IN  [holes |-> KeepHoles(face.holes,
                                   {k \in 1..Len(face.holes) :
                                       InAnyArea(face.connectionAreas, face.holes[k])}),
                     connectionAreas |-> face.connectionAreas]]]]

-----------------------------------------------------------------------------
(* app.py steps 14, 15: singer holes *)

determine_singer_hole_type(piece, x, y, face_name) ==
    LET ft == piece.half_thickness
        l  == piece.length
        h  == piece.height
        near_top    == y > h - MM(50)
        near_bottom == y < MM(50)
        in_middle_y == ~(near_top \/ near_bottom)
        near_left_border  == Abs(x - ft) <= MM(5)
        near_right_border == Abs(x - (l - ft)) <= MM(5)
    IN  IF face_name \in {"main", "other_main"}
        THEN IF near_left_border \/ near_right_border THEN "singer_flap"
             ELSE IF in_middle_y THEN "singer_central"
             ELSE "singer_flap"
        ELSE "singer_channel"

hole_exists_near_position(face_holes, x, y, min_distance) ==
    \E i \in 1..Len(face_holes) :
        DistLess(face_holes[i].x - x, face_holes[i].y - y, min_distance)

\* the loop over source_holes_in_area, from source hole k on
RECURSIVE MirrorHolesFrom(_, _, _, _, _)
MirrorHolesFrom(piece, source_holes, k, target_face_name, target_holes) ==
    IF k > Len(source_holes) THEN target_holes
    ELSE LET center_y == piece.height \div 2
             mirror_x == source_holes[k].x
             mirror_y == (2 * center_y) - source_holes[k].y
             singer_type == determine_singer_hole_type(piece, mirror_x, mirror_y, target_face_name)
             next_holes ==
                 IF ~hole_exists_near_position(target_holes, mirror_x, mirror_y, MM(8))
                 THEN Append(target_holes,
                             criar_hole(mirror_x, mirror_y, singer_type, "singer_dowel",
                                        None, 30, None))
                 ELSE target_holes
         IN  MirrorHolesFrom(piece, source_holes, k + 1, target_face_name, next_holes)

\* the source holes of the area copied to the target face at their own
\* position, not reflected across the centre line
add_singer_holes_unmirrored(piece, source_face_name, target_face_name, area) ==
    LET src == piece.faces[source_face_name].holes
        source_holes_in_area == KeepHoles(src, {i \in 1..Len(src) : InArea(area, src[i])})
    IN  [piece EXCEPT !.faces[target_face_name].holes =
            @ \o [k \in 1..Len(source_holes_in_area) |->
                     criar_hole(source_holes_in_area[k].x, source_holes_in_area[k].y,
                                determine_singer_hole_type(piece, source_holes_in_area[k].x,
                                                           source_holes_in_area[k].y,
                                                           target_face_name),
                                "singer_dowel", None, 30, None)]]

add_singer_holes_in_area(piece, source_face_name, target_face_name, area) ==
    LET src == piece.faces[source_face_name].holes
        source_holes_in_area == KeepHoles(src, {i \in 1..Len(src) : InArea(area, src[i])})
    IN  [piece EXCEPT !.faces[target_face_name].holes =
            MirrorHolesFrom(piece, source_holes_in_area, 1, target_face_name, @)]

\* the loop over the source face's connection areas, from area k on
RECURSIVE MirrorAreasFrom(_, _, _, _)
MirrorAreasFrom(piece, source_face_name, target_face_name, k) ==
    IF k > Len(piece.faces[source_face_name].connectionAreas) THEN piece
    ELSE LET conn_area == piece.faces[source_face_name].connectionAreas[k]
             mirrored_area == Area(conn_area.x_min, conn_area.y_min, conn_area.x_max,
                                   conn_area.y_max, "gray", None)
             p1 == [piece EXCEPT !.faces[target_face_name].connectionAreas =
                        Append(@, mirrored_area)]
         IN  MirrorAreasFrom(
                 add_singer_holes_in_area(p1, source_face_name, target_face_name, mirrored_area),
                 source_face_name, target_face_name, k + 1)

mirror_connection_areas_with_singer_holes(piece, source_face_name, target_face_name) ==
    MirrorAreasFrom(piece, source_face_name, target_face_name, 1)

SingerOnePiece(piece) ==
    LET p1 == IF piece.faces["main"].connectionAreas # <<>>
              THEN mirror_connection_areas_with_singer_holes(piece, "main", "other_main")
              ELSE piece
    IN  IF p1.faces["other_main"].connectionAreas # <<>>
        THEN mirror_connection_areas_with_singer_holes(p1, "other_main", "main")
        ELSE p1

add_singer_holes_step7(ps) == [i \in 1..Len(ps) |-> SingerOnePiece(ps[i])]

\* the loop over singer_positions, from position k on
RECURSIVE SingerPositionsFrom(_, _, _)
SingerPositionsFrom(face_holes, positions, k) ==
    IF k > Len(positions) THEN face_holes
    ELSE SingerPositionsFrom(
             IF ~hole_exists_near_position(face_holes, positions[k][1], positions[k][2], MM(8))
             THEN Append(face_holes,
                         criar_hole(positions[k][1], positions[k][2], positions[k][3],
                                    "dowel_G_with_glue", None, 40, None))
             ELSE face_holes,
             positions, k + 1)

add_singer_holes_to_face(piece, face_name) ==
    LET ft == piece.half_thickness
        h  == piece.height
        l  == piece.length
        singer_positions ==
            << <<ft + MM(5), ft + MM(5), "singer_flap">>,
               <<l - ft - MM(5), ft + MM(5), "singer_flap">>,
               <<l \div 2, ft + MM(5), "singer_central">>,
               <<ft + MM(5), h - ft - MM(5), "singer_channel">>,
               <<l - ft - MM(5), h - ft - MM(5), "singer_channel">> >>
    IN  IF face_name \in {"main", "other_main"}
        THEN [piece EXCEPT !.faces[face_name].holes = SingerPositionsFrom(@, singer_positions, 1)]
        ELSE piece

has_faces_with_content(piece) ==
    \E f \in FaceSet : piece.faces[f].holes # <<>> \/ piece.faces[f].connectionAreas # <<>>

ensure_all_pieces_have_faces(ps) ==
    [i \in 1..Len(ps) |->
        IF ~has_faces_with_content(ps[i])
        THEN add_singer_holes_to_face(add_singer_holes_to_face(ps[i], "main"), "other_main")
        ELSE ps[i]]

-----------------------------------------------------------------------------
(* The assemblies the pipeline is run on *)

\* the largest number of parts in an assembly
MaxPieces == 4

Pos(x, y, z) == [x |-> x, y |-> y, z |-> z]

\* The parts an assembly is drawn from: name, position and the three extents
\* read from the views (all already in millimetres, as mm() returns them).
PartCatalogue ==
    { construir_peca_3d(<<"p","e","r","n","a"," ","1">>, Pos(MM(500), 0, 0),
                        <<MM(80), MM(700), MM(40)>>),
      construir_peca_3d(<<"l","e","g"," ","2">>, Pos(MM(300), 0, 0),
                        <<MM(40), MM(40), MM(700)>>),
      construir_peca_3d(<<"b","a","s","e">>, Pos(MM(100), MM(20), 0),
                        <<MM(200), MM(200), MM(20)>>),
      construir_peca_3d(<<"t","a","m","p","o">>, Pos(0, 0, MM(700)),
                        <<MM(300), MM(400), MM(20)>>),
      construir_peca_3d(<<"f","u","n","d","o">>, Pos(0, 0, MM(350)),
                        <<MM(190), MM(400), MM(20)>>),
      construir_peca_3d(<<"m","e","s","a">>, Pos(MM(100), 0, MM(720)),
                        <<MM(200), MM(600), 1820>>),
      construir_peca_3d(<<"t","a","b","l","e"," ","l","e","g">>, Pos(MM(200), 0, 0),
                        <<MM(50), MM(50), MM(400)>>) }

\* part names are the keys of a dict: no two parts of an assembly share one
DistinctNames(ps) == \A i, j \in 1..Len(ps) : i # j => ps[i].name # ps[j].name

Assemblies ==
    UNION {{ps \in [1..n -> PartCatalogue] : DistinctNames(ps)} : n \in 1..MaxPieces}

-----------------------------------------------------------------------------
(* processar_json_entrada: one action per stage *)

LegsIdle == lpieces = <<>> /\ lpc = "idle"

InitApp ==
    /\ pieces \in Assemblies
    /\ connections = <<>>
    /\ pc = "built"
    /\ views = <<>>
    /\ LegsIdle

AllocateHoles ==
    /\ pc = "built"
    /\ pieces' = [i \in 1..Len(pieces) |-> adicionar_holes_sistematicos(pieces[i])]
    /\ pc' = "allocated"
    /\ UNCHANGED <<connections, lpieces, lpc, views>>

DetectConnections ==
    /\ pc = "allocated"
    /\ connections' = detect_connections_by_proximity(pieces)
    /\ pc' = "detected"
    /\ UNCHANGED <<pieces, lpieces, lpc, views>>

CreateAlignedAreas ==
    /\ pc = "detected"
    /\ pieces' = create_aligned_connection_areas(pieces, connections)
    /\ pc' = "aligned"
    /\ UNCHANGED <<connections, lpieces, lpc, views>>

EnsureAreas ==
    /\ pc = "aligned"
    /\ pieces' = ensure_all_pieces_have_connection_areas(pieces, connections)
    /\ pc' = "ensured"
    /\ UNCHANGED <<connections, lpieces, lpc, views>>

MapHoles ==
    /\ pc = "ensured"
    /\ pieces' = map_holes_between_pieces(pieces, connections)
    /\ pc' = "mapped"
    /\ UNCHANGED <<connections, lpieces, lpc, views>>

CleanHoles ==
    /\ pc = "mapped"
    /\ pieces' = clean_holes_outside_connection_areas(pieces)
    /\ pc' = "cleaned"
    /\ UNCHANGED <<connections, lpieces, lpc, views>>

AddSingerHoles ==
    /\ pc = "cleaned"
    /\ pieces' = add_singer_holes_step7(pieces)
    /\ pc' = "singer"
    /\ UNCHANGED <<connections, lpieces, lpc, views>>

EnsureFacesAndFinish ==
    /\ pc = "singer"
    /\ pieces' = IF Len(pieces) > 3 THEN ensure_all_pieces_have_faces(pieces) ELSE pieces
    /\ pc' = "done"
    /\ UNCHANGED <<connections, lpieces, lpc, views>>

NextApp ==
    \/ AllocateHoles
    \/ DetectConnections
    \/ CreateAlignedAreas
    \/ EnsureAreas
    \/ MapHoles
    \/ CleanHoles
    \/ AddSingerHoles
    \/ EnsureFacesAndFinish

Spec == InitApp /\ [][NextApp]_vars

-----------------------------------------------------------------------------
(* Properties of the app.py pipeline *)

\* tolerance=5.0 of find_proximity_points
ProximityTolerance == MM(5)

AppStagesWithAreas == {"aligned", "ensured", "mapped", "cleaned", "singer", "done"}

\* C1: in the final state, for every connection id, as many holes carry the
\* id on the leg's connecting face as on the panel's connecting face.
C1_HoleCountsMatch ==
    pc = "done" =>
        \A n \in 1..Len(connections) :
            LET c == connections[n]
                leg_holes   == pieces[c.piece1].faces[c.face1].holes
                panel_holes == pieces[c.piece2].faces[c.face2].holes
            IN  Cardinality({k \in 1..Len(leg_holes) : leg_holes[k].connectionId = c.id})
                  = Cardinality({k \in 1..Len(panel_holes) : panel_holes[k].connectionId = c.id})

\* C2: after mapping, every connection area and every hole with a connection
\* id on a face carries the id of a connection that joins that very face; no
\* area or hole carries the id of another joint (or of no joint at all).
C2_IdsBelongToJoint ==
    pc = "mapped" =>
        \A i \in 1..Len(pieces) : \A f \in FaceSet :
            LET face == pieces[i].faces[f]
                joins(id) == \E n \in 1..Len(connections) :
                                 /\ connections[n].id = id
                                 /\ \/ (connections[n].piece1 = i /\ connections[n].face1 = f)
                                    \/ (connections[n].piece2 = i /\ connections[n].face2 = f)
            IN  /\ \A k \in 1..Len(face.holes) :
                       face.holes[k].connectionId # None => joins(face.holes[k].connectionId)
                /\ \A k \in 1..Len(face.connectionAreas) :
                       face.connectionAreas[k].connectionId # None
                           => joins(face.connectionAreas[k].connectionId)

\* C3: every connection pairs two parallel faces (same normal axis) that lie
\* within the distance tolerance of each other along that axis.
C3_ConnectionsAreProximate ==
    \A n \in 1..Len(connections) :
        LET c == connections[n]
            d == calculate_face_to_face_distance(face_bounds(pieces[c.piece1], c.face1),
                                                 face_bounds(pieces[c.piece2], c.face2),
                                                 c.face1, c.face2)
        IN  /\ face_orientations(c.face1) = face_orientations(c.face2)
            /\ d # NoDistance
            /\ d <= ProximityTolerance

\* C5: from the creation of the connection areas to the final output, no two
\* connection areas of the same face overlap or coincide.
C5_NoOverlappingAreas ==
    pc \in AppStagesWithAreas =>
        \A i \in 1..Len(pieces) : \A f \in FaceSet :
            LET areas == pieces[i].faces[f].connectionAreas
            IN  \A a, b \in 1..Len(areas) :
                    a < b => /\ areas[a] # areas[b]
                             /\ ~ /\ areas[a].x_min < areas[b].x_max
                                  /\ areas[b].x_min < areas[a].x_max
                                  /\ areas[a].y_min < areas[b].y_max
                                  /\ areas[b].y_min < areas[a].y_max

\* C8: after the systematic allocation and after every later stage, no face
\* holds two holes within the 8 mm box of each other.
C8_NoHolesWithin8mm ==
    pc # "built" =>
        \A i \in 1..Len(pieces) : \A f \in FaceSet :
            LET holes == pieces[i].faces[f].holes
            IN  \A a, b \in 1..Len(holes) :
                    a < b => ~ /\ Abs(holes[a].x - holes[b].x) < MM(8)
                               /\ Abs(holes[a].y - holes[b].y) < MM(8)

\* C9: an assembly of exactly one leg and one panel ends with exactly one
\* connection, one connection area on the leg's top face and one on the
\* panel's main face.
C9_OneLegOnePanel ==
    (pc = "done" /\ Len(pieces) = 2) =>
        \A l, p \in 1..2 :
            (/\ l # p
             /\ is_leg_piece(pieces[l]) /\ ~is_panel_piece(pieces[l])
             /\ is_panel_piece(pieces[p]) /\ ~is_leg_piece(pieces[p]))
            => /\ Len(connections) = 1
               /\ Len(pieces[l].faces["top"].connectionAreas) = 1
               /\ Len(pieces[p].faces["main"].connectionAreas) = 1

\* the step of the pipeline that runs clean_holes_outside_connection_areas
IsCleanStep == pc = "mapped" /\ pc' = "cleaned"

-----------------------------------------------------------------------------
(* legs.py: pieces, rounding, connection areas, cleanup *)

\* MARGIN = 1.0, in hundredths of a millimetre
MARGIN == 100

\* the integer parts n below 1000 for which abs((n + 0.1) - n) < 0.1 holds of
\* the binary floats, so that n.1 becomes n (and n.9 becomes n + 1)
FloatSnapsTenth(n) == n \in 4..15 \/ n \in 64..255

\* round_to_one_decimal of a value 0 <= v < 1000 mm
RoundToOneDecimalAbs(v) ==
    LET rounded == Round1(v)
        n == rounded \div 100
        m == rounded % 100
    IN  IF m = 0 THEN rounded
        ELSE IF m = 10 /\ FloatSnapsTenth(n) THEN n * 100
        ELSE IF m = 90 /\ (n = 0 \/ FloatSnapsTenth(n)) THEN (n + 1) * 100
        ELSE rounded

\* round_to_one_decimal: round() and abs() are symmetric about zero
round_to_one_decimal(value) ==
    IF value >= 0 THEN RoundToOneDecimalAbs(value)
    ELSE 0 - RoundToOneDecimalAbs(0 - value)

\* Piece(name, bounds, length, height, thickness, quantity, faces=[]); the
\* bounds and the quantity play no part in the operations modelled here
LegsPiece(name, length, height, thickness) ==
    [name |-> name, length |-> length, height |-> height,
     thickness |-> thickness, faces |-> <<>>]

\* [face['faceSide'] for face in piece.faces]
FaceSides(piece) == {piece.faces[i].faceSide : i \in 1..Len(piece.faces)}

\* index of next(face for face in piece.faces if face['faceSide'] == face_side)
FaceIndex(piece, face_side) ==
    CHOOSE i \in 1..Len(piece.faces) :
        /\ piece.faces[i].faceSide = face_side
        /\ \A j \in 1..(i - 1) : piece.faces[j].faceSide # face_side

FaceObj(piece, face_side) == piece.faces[FaceIndex(piece, face_side)]

\* piece.faces.append({'faceSide': face_side, 'holes': [], 'connectionAreas': []})
\* where the face is missing
EnsureFace(piece, face_side) ==
    IF face_side \in FaceSides(piece) THEN piece
    ELSE [piece EXCEPT !.faces =
             Append(piece.faces,
                    [faceSide |-> face_side, holes |-> <<>>, connectionAreas |-> <<>>])]

\* the piece with the area list of one of its faces replaced
SetFaceAreas(piece, face_side, areas) ==
    [piece EXCEPT !.faces =
        AsSeq([i \in 1..Len(piece.faces) |->
            IF i = FaceIndex(piece, face_side)
            THEN [faceSide |-> piece.faces[i].faceSide,
                  holes |-> piece.faces[i].holes,
                  connectionAreas |-> areas]
            ELSE piece.faces[i]])]

\* the strict rectangle overlap test of add_connection_area
StrictOverlap(x_min, x_max, y_min, y_max, existing_ca) ==
    /\ x_min < existing_ca.x_max /\ x_max > existing_ca.x_min
    /\ y_min < existing_ca.y_max /\ y_max > existing_ca.y_min

\* the dict that add_connection_area appends (opacity is the constant 0.05)
StoredArea(x_min, x_max, y_min, y_max, connection_id) ==
    [x_min |-> round_to_one_decimal(x_min), y_min |-> round_to_one_decimal(y_min),
     x_max |-> round_to_one_decimal(x_max), y_max |-> round_to_one_decimal(y_max),
     fill |-> "black", connectionId |-> connection_id]

\* add_connection_area that appends without looking at the areas already on
\* the face
add_connection_area_unchecked(piece, face_side, x_min, x_max, y_min, y_max, connection_id) ==
    LET p1  == EnsureFace(piece, face_side)
        nx0 == x_min + MARGIN
        nx1 == x_max - MARGIN
        ny0 == y_min + MARGIN
        ny1 == y_max - MARGIN
    IN  IF nx1 <= nx0 \/ ny1 <= ny0 THEN p1
        ELSE SetFaceAreas(p1, face_side,
                          Append(FaceObj(p1, face_side).connectionAreas,
                                 StoredArea(nx0, nx1, ny0, ny1, connection_id)))

add_connection_area(piece, face_side, x_min, x_max, y_min, y_max, connection_id) ==
    LET p1  == EnsureFace(piece, face_side)
        nx0 == x_min + MARGIN
        nx1 == x_max - MARGIN
        ny0 == y_min + MARGIN
        ny1 == y_max - MARGIN
        existing == FaceObj(p1, face_side).connectionAreas
    IN  IF nx1 <= nx0 \/ ny1 <= ny0 THEN p1
        ELSE IF \E k \in 1..Len(existing) : StrictOverlap(nx0, nx1, ny0, ny1, existing[k])
        THEN p1
        ELSE SetFaceAreas(p1, face_side,
                          Append(existing, StoredArea(nx0, nx1, ny0, ny1, connection_id)))

\* the inner test of the legs.py cleanup: the hole lies in an area that
\* carries the hole's connection id
InAreaOfSameId(areas, hole) ==
    \E k \in 1..Len(areas) :
        /\ InArea(areas[k], hole)
        /\ areas[k].connectionId = hole.connectionId

\* a cleanup that removes from the list it iterates over: after a removal the
\* loop skips the hole that follows
RECURSIVE RemoveWhileIterating(_, _)
RemoveWhileIterating(holes, areas) ==
    IF holes = <<>> THEN <<>>
    ELSE IF Head(holes).connectionId # None /\ ~InAreaOfSameId(areas, Head(holes))
         THEN IF Len(holes) = 1 THEN <<>>
              ELSE <<holes[2]>> \o RemoveWhileIterating(Tail(Tail(holes)), areas)
         ELSE <<Head(holes)>> \o RemoveWhileIterating(Tail(holes), areas)

legs_clean_removing_while_iterating(piece) ==
    [piece EXCEPT !.faces =
         [i \in 1..Len(piece.faces) |->
                   [faceSide |-> piece.faces[i].faceSide,
                    holes |-> RemoveWhileIterating(piece.faces[i].holes,
                                                   piece.faces[i].connectionAreas),
                    connectionAreas |-> piece.faces[i].connectionAreas]]]

\* clean_holes_outside_connection_areas of legs.py
legs_clean_holes_outside_connection_areas(piece) ==
    [piece EXCEPT !.faces =
         AsSeq([i \in 1..Len(piece.faces) |->
                   LET face == piece.faces[i]
                   IN  [faceSide |-> face.faceSide,
                        holes |-> KeepHoles(face.holes,
                                      {k \in 1..Len(face.holes) :
                                          \/ face.holes[k].connectionId = None
                                          \/ InAreaOfSameId(face.connectionAreas, face.holes[k])}),
                        connectionAreas |-> face.connectionAreas]])]

-----------------------------------------------------------------------------
(* legs.py: the systematic connection areas *)

\* value * 0.3, * 0.1, * 0.15, * 0.98, * 0.95, * 0.9 on hundredths
Percent(value, pct) == (value * pct) \div 100

create_central_connection_area(piece, face_side, connection_id) ==
    IF face_side \notin {"main", "other_main"} THEN piece
    ELSE LET center_x  == piece.length \div 2
             center_y  == piece.height \div 2
             area_size == Percent(Min(piece.length, piece.height), 30)
         IN  add_connection_area(EnsureFace(piece, face_side), face_side,
                                 center_x - (area_size \div 2), center_x + (area_size \div 2),
                                 center_y - (area_size \div 2), center_y + (area_size \div 2),
                                 connection_id)

create_large_central_connection_area(piece, face_side, connection_id) ==
    IF face_side \notin {"main", "other_main"} THEN piece
    ELSE add_connection_area(EnsureFace(piece, face_side), face_side,
                             0, piece.length, 0, piece.height, connection_id)

create_corner_connection_areas(piece, face_side) ==
    IF face_side \notin {"main", "other_main"} THEN piece
    ELSE LET margin    == Percent(Min(piece.length, piece.height), 10)
             area_size == Percent(Min(piece.length, piece.height), 15)
             p1 == add_connection_area(EnsureFace(piece, face_side), face_side,
                       margin, margin + area_size,
                       piece.height - margin - area_size, piece.height - margin, 1)
             p2 == add_connection_area(p1, face_side,
                       piece.length - margin - area_size, piece.length - margin,
                       piece.height - margin - area_size, piece.height - margin, 2)
             p3 == add_connection_area(p2, face_side,
                       margin, margin + area_size, margin, margin + area_size, 3)
         IN  add_connection_area(p3, face_side,
                       piece.length - margin - area_size, piece.length - margin,
                       margin, margin + area_size, 4)

\* functions that return the next connection id return the piece with it
WithId(piece, connection_id) == [piece |-> piece, connection_id |-> connection_id]

create_fundo_edge_only_connection_areas(piece, start_connection_id) ==
    LET p0 == EnsureFace(EnsureFace(EnsureFace(EnsureFace(piece, "top"), "bottom"), "left"), "right")
        p1 == add_connection_area(p0, "top", 0, piece.length, 0, piece.thickness,
                                  start_connection_id)
        p2 == add_connection_area(p1, "bottom", 0, piece.length, 0, piece.thickness,
                                  start_connection_id + 1)
        p3 == add_connection_area(p2, "left", 0, piece.thickness, 0, piece.height,
                                  start_connection_id + 2)
        p4 == add_connection_area(p3, "right", 0, piece.thickness, 0, piece.height,
                                  start_connection_id + 3)
    IN  WithId(p4, start_connection_id + 4)

create_full_coverage_connection_area(piece, face_side, connection_id) ==
    IF face_side # "top" THEN piece
    ELSE add_connection_area(EnsureFace(piece, face_side), face_side,
                             0, piece.length, 0, piece.thickness, connection_id)

\* 'fundo' in other_piece.name.lower()
IsFundoName(name) == Contains(name, <<"f","u","n","d","o">>)

\* the areas on the left and right faces of a piece, in the order of the loops
RECURSIVE EdgeAreasFrom(_, _)
EdgeAreasFrom(piece, i) ==
    IF i > Len(piece.faces) THEN <<>>
    ELSE (IF piece.faces[i].faceSide \in {"left", "right"}
          THEN piece.faces[i].connectionAreas ELSE <<>>) \o EdgeAreasFrom(piece, i + 1)

\* best_ca: the first of the tallest areas taller than 100 mm, 0 if none
RECURSIVE BestCaFrom(_, _, _, _)
BestCaFrom(areas, k, best, best_height) ==
    IF k > Len(areas) THEN best
    ELSE LET ca_height == areas[k].y_max - areas[k].y_min
         IN  IF ca_height > best_height /\ ca_height > MM(100)
             THEN BestCaFrom(areas, k + 1, k, ca_height)
             ELSE BestCaFrom(areas, k + 1, best, best_height)

\* the loop over other_piece: the edge area of the first fundo that has one
RECURSIVE FundoEdgeFrom(_, _)
FundoEdgeFrom(ps, i) ==
    IF i > Len(ps) THEN [found |-> FALSE, width |-> 1760, height |-> 17760]
    ELSE IF ~IsFundoName(ps[i].name) THEN FundoEdgeFrom(ps, i + 1)
    ELSE LET areas == EdgeAreasFrom(ps[i], 1)
             best  == BestCaFrom(areas, 1, 0, 0)
         IN  IF best = 0 THEN FundoEdgeFrom(ps, i + 1)
             ELSE [found |-> TRUE,
                   width  |-> areas[best].x_max - areas[best].x_min,
                   height |-> areas[best].y_max - areas[best].y_min]

create_leg_multiple_connection_areas(piece, face_side, start_connection_id, ps) ==
    IF face_side = "top"
    THEN WithId(add_connection_area(EnsureFace(piece, "top"), "top",
                                    0, piece.length, 0, piece.thickness, start_connection_id),
                start_connection_id + 1)
    ELSE IF face_side = "main"
    THEN LET horizontal_height  == Min(piece.thickness, 1760)
             horizontal_width   == Percent(piece.length, 98) + MM(2)
             horizontal_y_start == piece.height - horizontal_height
             p1 == add_connection_area(EnsureFace(piece, "main"), "main",
                                       0, horizontal_width, horizontal_y_start, piece.height,
                                       start_connection_id)
             fundo == FundoEdgeFrom(ps, 1)
             vertical_width   == fundo.width + MM(2)
             vertical_height  == fundo.height + MM(2)
             vertical_x_start == piece.length - vertical_width
             vertical_y_start == MM(1)
         IN  WithId(add_connection_area(p1, "main",
                                        vertical_x_start, vertical_x_start + vertical_width,
                                        vertical_y_start, vertical_y_start + vertical_height,
                                        start_connection_id + 1),
                    start_connection_id + 2)
    ELSE WithId(piece, start_connection_id)

\* reference_size of create_systematic_connection_areas, None where no part
\* name holds 'tampo'
reference_size_of(ps) ==
    LET tampos == {i \in 1..Len(ps) : Contains(ps[i].name, <<"t","a","m","p","o">>)}
        sizes  == {Min(ps[i].length, ps[i].height) : i \in tampos}
    IN  IF tampos = {} THEN None ELSE CHOOSE s \in sizes : \A u \in sizes : s <= u

create_identical_connection_area(piece, face_side, connection_id, reference_size) ==
    IF face_side \notin {"main", "other_main"} THEN piece
    ELSE LET target_ca_size == IF reference_size # None THEN reference_size
                               ELSE Percent(Min(piece.length, piece.height), 95)
             center_x  == piece.length \div 2
             center_y  == piece.height \div 2
             half_size == target_ca_size \div 2
         IN  add_connection_area(EnsureFace(piece, face_side), face_side,
                                 Max(0, center_x - half_size),
                                 Min(piece.length, center_x + half_size),
                                 Max(0, center_y - half_size),
                                 Min(piece.height, center_y + half_size),
                                 connection_id)

\* face['connectionAreas'] = [] for every face of the piece on the given sides
ClearAreas(piece, sides) ==
    [piece EXCEPT !.faces =
         AsSeq([i \in 1..Len(piece.faces) |->
                   IF piece.faces[i].faceSide \in sides
                   THEN [faceSide |-> piece.faces[i].faceSide,
                         holes |-> piece.faces[i].holes,
                         connectionAreas |-> <<>>]
                   ELSE piece.faces[i]])]

\* connection_id_exists: some area of another piece carries the id
ConnectionIdExists(ps, pi, connection_id) ==
    \E o \in 1..Len(ps) :
        /\ o # pi
        /\ \E f \in 1..Len(ps[o].faces) :
               \E k \in 1..Len(ps[o].faces[f].connectionAreas) :
                   ps[o].faces[f].connectionAreas[k].connectionId = connection_id

\* the areas of a list whose index is in keep, in order
KeepAreas(areas, keep) ==
    LET idx == SelectSeqBy([i \in 1..Len(areas) |-> i], keep)
    IN  [k \in 1..Len(idx) |-> areas[idx[k]]]

\* valid_cas on the left, right and bottom faces of a leg
KeepGenuineEdgeAreas(ps, pi) ==
    LET piece == ps[pi]
    IN  [piece EXCEPT !.faces =
         AsSeq([i \in 1..Len(piece.faces) |->
                       LET face == piece.faces[i]
                       IN  IF face.faceSide \in {"left", "right", "bottom"}
                           THEN [faceSide |-> face.faceSide,
                                 holes |-> face.holes,
                                 connectionAreas |->
                                     KeepAreas(face.connectionAreas,
                                         {k \in 1..Len(face.connectionAreas) :
                                             ConnectionIdExists(ps, pi,
                                                 face.connectionAreas[k].connectionId)})]
                           ELSE face])]

\* the part list with one part replaced
SetPiece(ps, pi, piece) == AsSeq([i \in 1..Len(ps) |-> IF i = pi THEN piece ELSE ps[i]])

AllSides == {"main", "other_main", "top", "bottom", "left", "right"}

\* the body of the loop over the pieces, from piece pi on
RECURSIVE SystematicFrom(_, _, _, _)
SystematicFrom(ps, pi, connection_id, reference_size) ==
    IF pi > Len(ps) THEN ps
    ELSE LET piece == ps[pi]
         IN  IF piece.name = <<"t","a","m","p","o">>
             THEN SystematicFrom(
                      SetPiece(ps, pi, create_identical_connection_area(
                                           ClearAreas(piece, {"main"}), "main",
                                           connection_id, reference_size)),
                      pi + 1, connection_id + 1, reference_size)
             ELSE IF piece.name = <<"s","u","b","t","a","m","p","o">>
             THEN SystematicFrom(
                      SetPiece(ps, pi, create_identical_connection_area(
                                           ClearAreas(piece, AllSides), "main",
                                           connection_id, reference_size)),
                      pi + 1, connection_id + 1, reference_size)
             ELSE IF piece.name = <<"f","u","n","d","o">>
             THEN LET r == create_fundo_edge_only_connection_areas(
                               ClearAreas(piece, AllSides), connection_id)
                  IN  SystematicFrom(SetPiece(ps, pi, r.piece), pi + 1,
                                     r.connection_id, reference_size)
             ELSE IF Contains(piece.name, <<"p","e","r","n","a">>)
             THEN LET cleared == ClearAreas(EnsureFace(EnsureFace(piece, "top"), "main"),
                                            {"top", "main"})
                      ps1 == SetPiece(ps, pi, cleared)
                      ps2 == SetPiece(ps1, pi, KeepGenuineEdgeAreas(ps1, pi))
                      r1  == create_leg_multiple_connection_areas(ps2[pi], "top",
                                                                  connection_id, ps2)
                      ps3 == SetPiece(ps2, pi, r1.piece)
                      r2  == create_leg_multiple_connection_areas(ps3[pi], "main",
                                                                  r1.connection_id, ps3)
                  IN  SystematicFrom(SetPiece(ps3, pi, r2.piece), pi + 1,
                                     r2.connection_id, reference_size)
             ELSE SystematicFrom(
                      SetPiece(ps, pi, create_central_connection_area(
                                           ClearAreas(piece, {"main"}), "main",
                                           connection_id)),
                      pi + 1, connection_id + 1, reference_size)

create_systematic_connection_areas(ps, next_connection_id) ==
    SystematicFrom(ps, 1, next_connection_id, reference_size_of(ps))

-----------------------------------------------------------------------------
(* legs.py: sequences of calls that add and clear connection areas *)

\* connection_id = 1 of process_single_axis_connections: the id of the first
\* connection; the systematic areas go on from the id that follows
FirstConnectionId == 1

MaxAreas == 2

\* the parts the legs.py assemblies are drawn from: name, length, height and
\* thickness as process_illustrator_data stores them
LegsCatalogue ==
    { LegsPiece(<<"t","a","m","p","o">>, MM(300), MM(400), MM(20)),
      LegsPiece(<<"s","u","b","t","a","m","p","o">>, MM(280), MM(380), MM(20)),
      LegsPiece(<<"f","u","n","d","o">>, MM(180), MM(200), MM(20)),
      LegsPiece(<<"p","e","r","n","a"," ","1">>, MM(100), MM(200), MM(20)),
      LegsPiece(<<"l","a","t","e","r","a","l">>, MM(150), MM(350), 1820) }

\* every part alone, and a leg with a fundo in both orders
LegsAssemblies ==
    {<<p>> : p \in LegsCatalogue}
        \cup {ps \in [1..2 -> LegsCatalogue] :
                 {ps[1].name, ps[2].name}
                     = {<<"f","u","n","d","o">>, <<"p","e","r","n","a"," ","1">>}}

\* the rectangles create_connection passes on (x_min, x_max, y_min, y_max):
\* side by side, a hair apart, a hair into each other, too thin, inverted
AreaInputs ==
    { <<0, 1100, 0, 2000>>, <<896, 2000, 0, 2000>>, <<904, 2000, 0, 2000>>,
      <<910, 2000, 500, 1000>>, <<0, 200, 0, 2000>>, <<2000, 900, 0, 2000>> }

\* the faces and rectangles of the add_connection_area calls of create_connection
ConnectionCalls ==
    {<<"main", r>> : r \in AreaInputs} \cup {<<"left", <<0, 1100, 0, 2000>>>>}

AppIdle == pieces = <<>> /\ connections = <<>> /\ pc = "idle" /\ views = <<>>

InitLegs ==
    /\ lpieces \in LegsAssemblies
    /\ lpc = "detect"
    /\ AppIdle

\* one add_connection_area call of create_connection
LegsAddConnectionArea ==
    /\ lpc = "detect"
    /\ \E pi \in 1..Len(lpieces), call \in ConnectionCalls,
          connection_id \in {FirstConnectionId} :
           /\ call[1] \in FaceSides(lpieces[pi])
                  => Len(FaceObj(lpieces[pi], call[1]).connectionAreas) < MaxAreas
           /\ lpieces' = SetPiece(lpieces, pi,
                             add_connection_area(lpieces[pi], call[1], call[2][1], call[2][2],
                                                 call[2][3], call[2][4], connection_id))
    /\ UNCHANGED <<pieces, connections, pc, lpc, views>>

\* create_systematic_connection_areas with its clearing steps
LegsCreateSystematic ==
    /\ lpc = "detect"
    /\ \E next_connection_id \in {FirstConnectionId + 1} :
           lpieces' = create_systematic_connection_areas(lpieces, next_connection_id)
    /\ lpc' = "systematic"
    /\ UNCHANGED <<pieces, connections, pc, views>>

\* a helper is called on top of the areas that are there
HelperCall == lpc \in {"detect", "systematic"} /\ lpc' = "helped"

LegsCreateCentral ==
    /\ HelperCall
    /\ \E pi \in 1..Len(lpieces), connection_id \in {FirstConnectionId + 1} :
           lpieces' = SetPiece(lpieces, pi,
                          create_central_connection_area(lpieces[pi], "main", connection_id))
    /\ UNCHANGED <<pieces, connections, pc, views>>

LegsCreateLargeCentral ==
    /\ HelperCall
    /\ \E pi \in 1..Len(lpieces), connection_id \in {FirstConnectionId + 1} :
           lpieces' = SetPiece(lpieces, pi,
                          create_large_central_connection_area(lpieces[pi], "main",
                                                               connection_id))
    /\ UNCHANGED <<pieces, connections, pc, views>>

LegsCreateCorner ==
    /\ HelperCall
    /\ \E pi \in 1..Len(lpieces) :
           lpieces' = SetPiece(lpieces, pi, create_corner_connection_areas(lpieces[pi], "main"))
    /\ UNCHANGED <<pieces, connections, pc, views>>

LegsCreateFundoEdgeOnly ==
    /\ HelperCall
    /\ \E pi \in 1..Len(lpieces), connection_id \in {FirstConnectionId + 1} :
           lpieces' = SetPiece(lpieces, pi,
                          create_fundo_edge_only_connection_areas(lpieces[pi],
                                                                  connection_id).piece)
    /\ UNCHANGED <<pieces, connections, pc, views>>

LegsCreateFullCoverage ==
    /\ HelperCall
    /\ \E pi \in 1..Len(lpieces), connection_id \in {FirstConnectionId + 1} :
           lpieces' = SetPiece(lpieces, pi,
                          create_full_coverage_connection_area(lpieces[pi], "top",
                                                               connection_id))
    /\ UNCHANGED <<pieces, connections, pc, views>>

LegsCreateLegMultiple ==
    /\ HelperCall
    /\ \E pi \in 1..Len(lpieces), face_side \in {"top", "main"},
          connection_id \in {FirstConnectionId + 1} :
           lpieces' = SetPiece(lpieces, pi,
                          create_leg_multiple_connection_areas(lpieces[pi], face_side,
                                                               connection_id, lpieces).piece)
    /\ UNCHANGED <<pieces, connections, pc, views>>

LegsCreateIdentical ==
    /\ HelperCall
    /\ \E pi \in 1..Len(lpieces), connection_id \in {FirstConnectionId + 1},
          reference_size \in {None, reference_size_of(lpieces)} :
           lpieces' = SetPiece(lpieces, pi,
                          create_identical_connection_area(lpieces[pi], "main",
                                                           connection_id, reference_size))
    /\ UNCHANGED <<pieces, connections, pc, views>>

NextLegs ==
    \/ LegsAddConnectionArea
    \/ LegsCreateSystematic
    \/ LegsCreateCentral
    \/ LegsCreateLargeCentral
    \/ LegsCreateCorner
    \/ LegsCreateFundoEdgeOnly
    \/ LegsCreateFullCoverage
    \/ LegsCreateLegMultiple
    \/ LegsCreateIdentical

SpecLegs == InitLegs /\ [][NextLegs]_vars

\* C4: no two connection areas stored on the same face of a legs.py piece
\* overlap (strict rectangle overlap of the stored, rounded coordinates).
C4_StoredAreasDoNotOverlap ==
    \A pi \in 1..Len(lpieces) : \A f \in 1..Len(lpieces[pi].faces) :
        LET areas == lpieces[pi].faces[f].connectionAreas
        IN  \A a, b \in 1..Len(areas) :
                a # b => ~StrictOverlap(areas[a].x_min, areas[a].x_max,
                                        areas[a].y_min, areas[a].y_max, areas[b])

\* a helper has acted on a face that already held an area: the two stored
\* areas meet in one edge after rounding, or lie apart
C4_Witness ==
    /\ lpc = "helped"
    /\ \E pi \in 1..Len(lpieces) : \E f \in 1..Len(lpieces[pi].faces) :
           LET areas == lpieces[pi].faces[f].connectionAreas
           IN  /\ Len(areas) >= 3
               /\ areas[1].x_max = areas[2].x_min

-----------------------------------------------------------------------------
(* The two cleanups on arbitrary hole and area lists *)

MaxHoles == 2

\* holes inside, outside and on the border of the areas below, with and
\* without a connection id
CleanHoleInputs ==
    { criar_hole(MM(10), MM(10), "flap_corner", "dowel_M_with_glue", None, 10, 8),
      criar_hole(MM(150), MM(10), "flap_central", "glue", 2, 20, None),
      criar_hole(MM(250), MM(300), "face_central", "dowel_M_with_glue", 2, 10, 8),
      criar_hole(MM(160), MM(200), "singer_flap", "dowel_G_with_glue", None, 40, 8) }

CleanHoleLists ==
    UNION {{hs \in [1..n -> CleanHoleInputs] : \A i, j \in 1..n : i # j => hs[i] # hs[j]}
               : n \in 0..MaxHoles}

CleanAreaLists ==
    LET a1 == Area(MM(140), 0, MM(160), MM(200), "black", 1)
        a2 == Area(MM(240), MM(290), MM(260), MM(310), "black", 2)
    IN  {<<>>, <<a1>>, <<a2>>, <<a1, a2>>}

\* both programs are handed the same main face
InitClean ==
    /\ \E hs \in CleanHoleLists, as \in CleanAreaLists :
           /\ pieces = <<[construir_peca_3d(<<"t","a","m","p","o">>, Pos(0, 0, 0),
                                            <<MM(300), MM(400), MM(20)>>)
                             EXCEPT !.faces["main"] = [holes |-> hs, connectionAreas |-> as]]>>
           /\ lpieces = <<[LegsPiece(<<"t","a","m","p","o">>, MM(300), MM(400), MM(20))
                              EXCEPT !.faces = <<[faceSide |-> "main", holes |-> hs,
                                                  connectionAreas |-> as]>>]>>
    /\ connections = <<>>
    /\ views = <<>>
    /\ pc = "dirty"
    /\ lpc = "dirty"

\* app.py: clean_holes_outside_connection_areas(pecas_3d), a first and a second time
CleanApp ==
    /\ pc \in {"dirty", "once"}
    /\ pieces' = clean_holes_outside_connection_areas(pieces)
    /\ pc' = IF pc = "dirty" THEN "once" ELSE "twice"
    /\ UNCHANGED <<connections, lpieces, lpc, views>>

\* legs.py: for piece in pieces: clean_holes_outside_connection_areas(piece)
CleanLegs ==
    /\ lpc \in {"dirty", "once"}
    /\ lpieces' = [i \in 1..Len(lpieces) |->
                      legs_clean_holes_outside_connection_areas(lpieces[i])]
    /\ lpc' = IF lpc = "dirty" THEN "once" ELSE "twice"
    /\ UNCHANGED <<connections, pieces, pc, views>>

NextClean == CleanApp \/ CleanLegs

SpecClean == InitClean /\ [][NextClean]_vars

\* C7: a second cleanup leaves every face as the first one left it, in app.py
\* and in legs.py, and no cleanup changes a connection-area list.
C7_CleanupIdempotent ==
    [][/\ (pc = "once" /\ pc' = "twice") => pieces' = pieces
       /\ (lpc = "once" /\ lpc' = "twice") => lpieces' = lpieces
       /\ \A i \in 1..Len(pieces) : \A f \in FaceSet :
              pieces'[i].faces[f].connectionAreas = pieces[i].faces[f].connectionAreas
       /\ \A i \in 1..Len(lpieces) : \A f \in 1..Len(lpieces[i].faces) :
              lpieces'[i].faces[f].connectionAreas = lpieces[i].faces[f].connectionAreas]_vars

\* both cleanups have run twice on a main face with areas; each kept holes,
\* and they did not keep the same ones
C7_Witness ==
    /\ pc = "twice" /\ lpc = "twice"
    /\ pieces[1].faces["main"].connectionAreas # <<>>
    /\ pieces[1].faces["main"].holes # <<>>
    /\ lpieces[1].faces[1].holes # <<>>
    /\ lpieces[1].faces[1].holes # pieces[1].faces["main"].holes

-----------------------------------------------------------------------------
(* adicionar_holes_sistematicos on single parts *)

\* extents as mm() returns them, around the 200 mm spacing and the 8 mm
\* suppression box
AllocDims == {1820, MM(20), 2060, MM(25), MM(220), 22040, 22060, MM(400)}

AllocNames == {<<"t","a","m","p","o">>, <<"l","a","t","e","r","a","l">>,
               <<"p","e","r","n","a"," ","1">>}

InitAlloc ==
    /\ \E nome \in AllocNames, dims \in [1..3 -> AllocDims] :
           pieces = <<construir_peca_3d(nome, Pos(0, 0, 0), dims)>>
    /\ connections = <<>>
    /\ pc = "built"
    /\ views = <<>>
    /\ LegsIdle

NextAlloc == AllocateHoles

SpecAlloc == InitAlloc /\ [][NextAlloc]_vars

\* the corner positions and the edges of a face of a panel
FaceCornerPositions(peca, face_name) ==
    IF face_name \in {"main", "other_main"} THEN MainCornerPositions(peca)
    ELSE ThicknessCornerPositions(peca, face_name)

FaceEdgePairs(face_name) ==
    IF face_name \in {"main", "other_main"} THEN MainEdgePairs ELSE ThicknessEdgePairs

\* C10: on every face of a non-leg part, an edge whose two corner holes are
\* stored more than 200 mm apart has exactly one hole at its midpoint, a
\* central one; an edge whose corner holes are 200 mm apart or less has no
\* central hole at its midpoint; and the face has no other central hole.
C10_OneCentralHolePerLongEdge ==
    pc = "allocated" =>
        \A i \in 1..Len(pieces) : ~is_leg_piece(pieces[i]) =>
            \A f \in FaceSet :
                LET holes   == pieces[i].faces[f].holes
                    corners == FaceCornerPositions(pieces[i], f)
                    pairs   == FaceEdgePairs(f)
                    corner_type  == IF f \in {"main", "other_main"}
                                    THEN "flap_corner" ELSE "top_corner"
                    central_type == IF f \in {"main", "other_main"}
                                    THEN "flap_central" ELSE "top_central"
                    At(p) == {k \in 1..Len(holes) :
                                 holes[k].x = Arredondar(p[1]) /\ holes[k].y = Arredondar(p[2])}
                    P(e) == corners[pairs[e][1]]
                    Q(e) == corners[pairs[e][2]]
                    Stored(e) == /\ \E k \in At(P(e)) : holes[k].type = corner_type
                                 /\ \E k \in At(Q(e)) : holes[k].type = corner_type
                    Long(e) == DistGreater(Arredondar(Q(e)[1]) - Arredondar(P(e)[1]),
                                           Arredondar(Q(e)[2]) - Arredondar(P(e)[2]), MM(200))
                    Mid(e) == <<(P(e)[1] + Q(e)[1]) \div 2, (P(e)[2] + Q(e)[2]) \div 2>>
                IN  /\ \A e \in 1..4 :
                           Stored(e) =>
                               IF Long(e)
                               THEN /\ Cardinality(At(Mid(e))) = 1
                                    /\ \A k \in At(Mid(e)) : holes[k].type = central_type
                               ELSE \A k \in At(Mid(e)) : holes[k].type # central_type
                    /\ \A k \in 1..Len(holes) :
                           holes[k].type = central_type
                               => \E e \in 1..4 : Stored(e) /\ Long(e) /\ k \in At(Mid(e))

\* a panel whose main face has long left and right edges and short bottom
\* and top edges: two flap_central holes, none on the short edges
C10_Witness ==
    /\ pc = "allocated"
    /\ ~is_leg_piece(pieces[1])
    /\ pieces[1].length = MM(220) /\ pieces[1].height = MM(400)
    /\ pieces[1].thickness = MM(20)
    /\ Cardinality({k \in 1..Len(pieces[1].faces["main"].holes) :
                        pieces[1].faces["main"].holes[k].type = "flap_central"}) = 2

-----------------------------------------------------------------------------
(* legs.py: add_hole *)

HOLE_DIAMETER == 8

HOLE_DEPTH_MAIN == 10

HOLE_DEPTH_OTHER_MAIN == 40

HOLE_DEPTH_TOP == 20

\* ferragem of add_hole
legs_ferragem(hole_type) ==
    IF hole_type \in {"flap_corner", "flap_central", "face_central"} THEN "dowel_M_with_glue"
    ELSE IF hole_type \in {"singer_flap", "singer_central", "singer_channel"}
         THEN "dowel_G_with_glue"
         ELSE "glue"

\* the piece with the hole list of one of its faces replaced
SetLegsFaceHoles(piece, face_side, holes) ==
    [piece EXCEPT !.faces =
        AsSeq([i \in 1..Len(piece.faces) |->
            IF i = FaceIndex(piece, face_side)
            THEN [faceSide |-> piece.faces[i].faceSide,
                  holes |-> holes,
                  connectionAreas |-> piece.faces[i].connectionAreas]
            ELSE piece.faces[i]])]

\* a hole without the 'connectionId' key has connectionId None
add_hole(piece, face_side, x, y, hole_type, connection_id, depth) ==
    LET p1 == EnsureFace(piece, face_side)
        rounded_x == round_to_one_decimal(x)
        rounded_y == round_to_one_decimal(y)
        holes == FaceObj(p1, face_side).holes
        same  == {k \in 1..Len(holes) : holes[k].x = rounded_x /\ holes[k].y = rounded_y}
        first == CHOOSE k \in same : \A j \in same : k <= j
        hole  == [x |-> rounded_x, y |-> rounded_y, type |-> hole_type,
                  ferragem |-> legs_ferragem(hole_type), connectionId |-> connection_id,
                  depth |-> depth, diameter |-> HOLE_DIAMETER]
    IN  IF same # {}
        THEN IF connection_id # None /\ holes[first].connectionId = None
             THEN SetLegsFaceHoles(p1, face_side,
                      AsSeq([k \in 1..Len(holes) |->
                          IF k = first
                          THEN [x |-> holes[k].x, y |-> holes[k].y, type |-> holes[k].type,
                                ferragem |-> holes[k].ferragem, connectionId |-> connection_id,
                                depth |-> holes[k].depth, diameter |-> holes[k].diameter]
                          ELSE holes[k]]))
             ELSE p1
        ELSE SetLegsFaceHoles(p1, face_side, Append(holes, hole))

-----------------------------------------------------------------------------
(* legs.py: sequences of add_hole calls on one piece *)

MaxFaceHoles == 3

\* requested positions: equal after rounding, 3 mm apart, 5 mm apart, far apart
HoleRequests ==
    { <<MM(10), MM(10)>>, <<1004, MM(10)>>, <<MM(13), MM(10)>>, <<MM(15), MM(10)>>,
      <<MM(100), MM(100)>> }

InitAddHole ==
    /\ lpieces = <<LegsPiece(<<"t","a","m","p","o">>, MM(300), MM(400), MM(20))>>
    /\ lpc = "holes"
    /\ AppIdle

\* the faces and positions of the add_hole calls
HoleCalls ==
    {<<"main", pos>> : pos \in HoleRequests} \cup {<<"top", <<MM(10), MM(10)>>>>}

LegsAddHole ==
    /\ lpc = "holes"
    /\ \E call \in HoleCalls, connection_id \in {None, FirstConnectionId} :
           /\ call[1] \in FaceSides(lpieces[1])
                  => Len(FaceObj(lpieces[1], call[1]).holes) < MaxFaceHoles
           /\ lpieces' = <<add_hole(lpieces[1], call[1], call[2][1], call[2][2],
                                    IF call[1] = "main" THEN "flap_corner" ELSE "top_corner",
                                    connection_id,
                                    IF call[1] = "main" THEN HOLE_DEPTH_MAIN
                                    ELSE HOLE_DEPTH_TOP)>>
    /\ UNCHANGED <<pieces, connections, pc, lpc, views>>

NextAddHole == LegsAddHole

SpecAddHole == InitAddHole /\ [][NextAddHole]_vars

\* C11: after any sequence of add_hole calls, no face of a legs.py piece holds
\* two holes closer than 5 mm to each other: a request within 5 mm of a hole
\* already on the face adds no hole.
C11_NearDuplicatesCollapse ==
    \A pi \in 1..Len(lpieces) : \A f \in 1..Len(lpieces[pi].faces) :
        LET holes == lpieces[pi].faces[f].holes
        IN  \A a, b \in 1..Len(holes) :
                a < b => ~DistLess(holes[a].x - holes[b].x, holes[a].y - holes[b].y, MM(5))

-----------------------------------------------------------------------------
(* a leg under a panel of varying extents, through the whole app.py pipeline *)

\* the extents a panel's views may give, fractional ones included
PanelDims == {1820, MM(20), MM(220), 22040, MM(300), 40060}

PanelLegs ==
    { construir_peca_3d(<<"p","e","r","n","a"," ","1">>, Pos(MM(500), 0, 0),
                        <<MM(80), MM(700), MM(40)>>),
      construir_peca_3d(<<"b","a","s","e">>, Pos(MM(100), MM(20), 0),
                        <<MM(200), MM(200), MM(20)>>) }

InitPanels ==
    /\ \E leg \in PanelLegs, dims3 \in [1..3 -> PanelDims], panel_first \in BOOLEAN :
           LET panel == construir_peca_3d(<<"t","a","m","p","o">>, Pos(0, 0, MM(700)), dims3)
           IN  pieces = IF panel_first THEN <<panel, leg>> ELSE <<leg, panel>>
    /\ connections = <<>>
    /\ pc = "built"
    /\ views = <<>>
    /\ LegsIdle

SpecPanels == InitPanels /\ [][NextApp]_vars

\* the step of the pipeline that runs add_singer_holes_step7
IsSingerStep == pc = "cleaned" /\ pc' = "singer"

\* the position add_singer_holes_in_area stores for the mirror of (x, y)
MirrorOf(piece, x, y) ==
    <<Arredondar(x), Arredondar((2 * (piece.height \div 2)) - y)>>

\* C12: the singer step puts the mirror of a hole (x, y) of a main face's
\* area at (x, H - y) on the opposite face, H the piece's height, as a singer
\* hole; every hole the step adds to other_main is such a mirror, and the
\* mirror of the mirror is the source position again, so that the pass back
\* from other_main adds no hole to main.
C12_SingerMirrorsAcrossCentre ==
    [][IsSingerStep =>
        \A i \in 1..Len(pieces) :
            LET piece  == pieces[i]
                H      == piece.height
                main   == piece.faces["main"]
                before == piece.faces["other_main"].holes
                after  == pieces'[i].faces["other_main"].holes
                source == {k \in 1..Len(main.holes) :
                              InAnyArea(main.connectionAreas, main.holes[k])}
            IN  /\ Len(after) >= Len(before)
                /\ \A k \in 1..Len(before) : after[k] = before[k]
                /\ \A k \in (Len(before) + 1)..Len(after) :
                       /\ after[k].type \in {"singer_flap", "singer_central"}
                       /\ \E s \in source :
                              /\ after[k].x = main.holes[s].x
                              /\ after[k].y = H - main.holes[s].y
                              /\ MirrorOf(piece, after[k].x, after[k].y)
                                     = <<main.holes[s].x, main.holes[s].y>>
                /\ \A s \in source :
                       \/ \E k \in 1..Len(after) :
                              /\ after[k].x = main.holes[s].x
                              /\ after[k].y = H - main.holes[s].y
                       \/ hole_exists_near_position(after, main.holes[s].x,
                                                    H - main.holes[s].y, MM(8))
                /\ pieces'[i].faces["main"].holes = main.holes]_vars

\* a panel after the singer step: a hole of its main face, off the centre
\* line, has its mirror on other_main
C12_Witness ==
    /\ pc = "singer"
    /\ \E i \in 1..Len(pieces) :
           LET main  == pieces[i].faces["main"].holes
               other == pieces[i].faces["other_main"].holes
           IN  \E s \in 1..Len(main), k \in 1..Len(other) :
                   /\ 2 * main[s].y # pieces[i].height
                   /\ other[k].type \in {"singer_flap", "singer_central"}
                   /\ other[k].x = main[s].x
                   /\ other[k].y = pieces[i].height - main[s].y

-----------------------------------------------------------------------------
(* classify_hole_type applied to points of the faces of one part *)

\* the largest number of classified holes put on one part
MaxClassified == 1

\* coordinates around the inset lines (tolerance 2 mm) and far from them
ClassifyCoords == {MM(8), 820, MM(10), 1180, MM(12), MM(100), MM(290), MM(390)}

\* a wide panel, a narrow bar (its main face is 20 mm wide) and a thin panel
ClassifyParts ==
    { construir_peca_3d(<<"t","a","m","p","o">>, Pos(0, 0, MM(700)),
                        <<MM(300), MM(400), MM(20)>>),
      construir_peca_3d(<<"t","r","a","v","e","s","s","a">>, Pos(0, 0, MM(350)),
                        <<MM(20), MM(400), MM(20)>>),
      construir_peca_3d(<<"m","e","s","a">>, Pos(MM(100), 0, MM(720)),
                        <<MM(200), MM(600), 1820>>) }

InitClassify ==
    /\ \E part \in ClassifyParts : pieces = <<part>>
    /\ connections = <<>>
    /\ pc = "classify"
    /\ views = <<>>
    /\ LegsIdle

HolesOnPart(piece) ==
    Len(piece.faces["main"].holes) + Len(piece.faces["other_main"].holes)
    + Len(piece.faces["top"].holes) + Len(piece.faces["bottom"].holes)
    + Len(piece.faces["left"].holes) + Len(piece.faces["right"].holes)

\* the hole that map_leg_holes_to_top_panel builds for a point of a face: its
\* type is what classify_hole_type returns for the point
ClassifyPoint ==
    /\ pc = "classify"
    /\ HolesOnPart(pieces[1]) < MaxClassified
    /\ \E face_name \in FaceSet, hole_x \in ClassifyCoords, hole_y \in ClassifyCoords :
           pieces' = SetFaceHoles(pieces, 1, face_name,
                         Append(pieces[1].faces[face_name].holes,
                                criar_hole(hole_x, hole_y,
                                           classify_hole_type(hole_x, hole_y, pieces[1], face_name),
                                           "glue", None, None, None)))
    /\ UNCHANGED <<connections, pc, lpieces, lpc, views>>

NextClassify == ClassifyPoint

SpecClassify == InitClassify /\ [][NextClassify]_vars

\* the edges of the face whose half_thickness inset line is within 2 mm of
\* the point (x, y)
EdgesWithinTolerance(piece, face_name, x, y) ==
    LET ft == piece.half_thickness
        face_width  == IF face_name \in {"left", "right"} THEN piece.thickness
                       ELSE piece.length
        face_height == IF face_name \in {"top", "bottom"} THEN piece.thickness
                       ELSE piece.height
    IN  {e \in {"left_edge", "right_edge", "bottom_edge", "top_edge"} :
            CASE e = "left_edge"   -> Abs(x - ft) < MM(2)
              [] e = "right_edge"  -> Abs((face_width - ft) - x) < MM(2)
              [] e = "bottom_edge" -> Abs(y - ft) < MM(2)
              [] OTHER             -> Abs((face_height - ft) - y) < MM(2)}

TwoPerpendicular(edges) ==
    /\ edges \cap {"left_edge", "right_edge"} # {}
    /\ edges \cap {"bottom_edge", "top_edge"} # {}

CornerTypeOf(face_name) ==
    IF face_name \in {"main", "other_main"} THEN "flap_corner" ELSE "top_corner"

CentralTypeOf(face_name) ==
    IF face_name \in {"main", "other_main"} THEN "flap_central" ELSE "top_central"

\* C15 (as claimed): the type is the corner type exactly when the point is
\* within tolerance of two perpendicular edges, the edge-central type exactly
\* when it is within tolerance of exactly one edge, and face_central in every
\* other case, two parallel edges only included.
C15_CentralOnlyNearOneEdge ==
    \A i \in 1..Len(pieces) : \A f \in FaceSet :
        \A k \in 1..Len(pieces[i].faces[f].holes) :
            LET hole  == pieces[i].faces[f].holes[k]
                edges == EdgesWithinTolerance(pieces[i], f, hole.x, hole.y)
            IN  hole.type =
                    IF TwoPerpendicular(edges) THEN CornerTypeOf(f)
                    ELSE IF Cardinality(edges) = 1 THEN CentralTypeOf(f)
                    ELSE "face_central"

\* C15 (amended): the type is the corner type exactly when the point is
\* within tolerance of two perpendicular edges, the edge-central type exactly
\* when it is within tolerance of one edge or of two parallel edges but of no
\* two perpendicular ones, and face_central exactly when it is within
\* tolerance of no edge.
C15_CentralNearAnyEdge ==
    \A i \in 1..Len(pieces) : \A f \in FaceSet :
        \A k \in 1..Len(pieces[i].faces[f].holes) :
            LET hole  == pieces[i].faces[f].holes[k]
                edges == EdgesWithinTolerance(pieces[i], f, hole.x, hole.y)
            IN  /\ hole.type = CornerTypeOf(f) <=> TwoPerpendicular(edges)
                /\ hole.type = CentralTypeOf(f)
                       <=> (edges # {} /\ ~TwoPerpendicular(edges))
                /\ hole.type = "face_central" <=> edges = {}

\* a point of a narrow face within tolerance of the left and of the right
\* edge only, classified as edge-central
C15_Witness ==
    \E i \in 1..Len(pieces) : \E f \in FaceSet :
        \E k \in 1..Len(pieces[i].faces[f].holes) :
            LET hole  == pieces[i].faces[f].holes[k]
                edges == EdgesWithinTolerance(pieces[i], f, hole.x, hole.y)
            IN  /\ pc = "classify"
                /\ edges = {"left_edge", "right_edge"}
                /\ hole.type = CentralTypeOf(f)

-----------------------------------------------------------------------------
(* where the app.py pipeline puts connection areas *)

-----------------------------------------------------------------------------
(* what ensure_all_pieces_have_connection_areas guarantees *)

HasSomeArea(piece) == \E f \in FaceSet : piece.faces[f].connectionAreas # <<>>

\* C18: once ensure_all_pieces_have_connection_areas has run, every part has
\* a connection area on at least one face, parts that take part in no
\* connection included.
C18_EveryPartHasAnArea ==
    pc \in {"ensured", "mapped", "cleaned", "singer", "done"}
    => \A i \in 1..Len(pieces) : HasSomeArea(pieces[i])

-----------------------------------------------------------------------------
(* mapping of a connection whose panel face has no connection area *)

\* the fallback branch of transform_leg_to_top_coordinates: the leg's top face
\* scaled to the panel's main face, offset by the connection id
transform_leg_to_top_coordinates(leg_piece, top_piece, leg_x, leg_y, conn_id) ==
    LET base_x == (leg_x * top_piece.length) \div leg_piece.length
        base_y == (leg_y * top_piece.height) \div leg_piece.thickness
    IN  IF conn_id = 1 THEN <<base_x, base_y>>
        ELSE IF conn_id = 2
        THEN LET offset_x == top_piece.length \div 10
                 offset_y == (top_piece.height * 3) \div 10
             IN  <<IF 2 * base_x < top_piece.length THEN base_x + offset_x
                   ELSE base_x - offset_x,
                   base_y + offset_y>>
        ELSE LET offset_x == (top_piece.length * 15 * (conn_id - 1)) \div 100
                 offset_y == (top_piece.height * 2 * (conn_id - 1)) \div 10
             IN  <<(base_x + offset_x) % top_piece.length,
                   (base_y + offset_y) % top_piece.height>>

\* the step of the pipeline that runs map_holes_between_pieces
IsMapStep == pc = "ensured" /\ pc' = "mapped"

\* C19: when hole mapping runs on a connection whose panel face holds no
\* connection area, every hole of the leg face still gets a panel hole, at
\* the position the direct scaled transform gives.
C19_AreaLessConnectionStillMapped ==
    [][IsMapStep =>
        \A c \in 1..Len(connections) :
            LET conn  == connections[c]
                leg   == pieces[conn.piece1]
                panel == pieces[conn.piece2]
                leg_holes == leg.faces[conn.face1].holes
                after == pieces'[conn.piece2].faces[conn.face2].holes
            IN  panel.faces[conn.face2].connectionAreas = <<>>
                => \A k \in 1..Len(leg_holes) :
                       LET to == transform_leg_to_top_coordinates(
                                     leg, panel, leg_holes[k].x, leg_holes[k].y, conn.id)
                       IN  \E m \in 1..Len(after) :
                               /\ after[m].x = Arredondar(to[1])
                               /\ after[m].y = Arredondar(to[2])]_vars

-----------------------------------------------------------------------------
(* the build loop of processar_json_entrada over the view table *)

\* the largest number of parts in the view table
MaxViewParts == 3

ViewNames == {"top", "lateral", "frontal"}

\* the entry of one part in the view table: for each standard view what
\* views.get gives, written as a list: the item read from the input, or
\* nothing where the input has no such view of the part. The items carry the
\* position and the extents the part is built from.
ViewsOf(nome, pos, dims3, present) ==
    [nome    |-> nome,
     top     |-> IF "top" \in present
                 THEN <<[posicao |-> [x |-> pos.x, y |-> pos.y], largura |-> dims3[1]]>>
                 ELSE <<>>,
     frontal |-> IF "frontal" \in present
                 THEN <<[posicao |-> [y |-> pos.z], altura |-> dims3[2]]>>
                 ELSE <<>>,
     lateral |-> IF "lateral" \in present
                 THEN <<[largura |-> dims3[3]]>>
                 ELSE <<>>]

ViewTableParts ==
    UNION { { ViewsOf(<<"p","e","r","n","a"," ","1">>, Pos(MM(500), 0, 0),
                      <<MM(80), MM(700), MM(40)>>, present),
              ViewsOf(<<"t","a","m","p","o">>, Pos(0, 0, MM(700)),
                      <<MM(300), MM(400), MM(20)>>, present),
              ViewsOf(<<"b","a","s","e">>, Pos(MM(100), MM(20), 0),
                      <<MM(200), MM(200), MM(20)>>, present) }
            : present \in (SUBSET ViewNames) \ {{}} }

\* the keys of the view table are part names: no two entries share one
DistinctNomes(vs) == \A i, j \in 1..Len(vs) : i # j => vs[i].nome # vs[j].nome

ViewTables ==
    UNION {{vs \in [1..n -> ViewTableParts] : DistinctNomes(vs)} : n \in 1..MaxViewParts}

\* the construction that checks the top and frontal views only and takes
\* the extent of a missing lateral view from the top view
construir_peca_3d_unchecked_lateral(v) ==
    LET sup == v.top
        lat == IF v.lateral = <<>> THEN v.top ELSE v.lateral
        fra == v.frontal
    IN  IF sup = <<>> \/ fra = <<>> THEN <<>>
        ELSE <<construir_peca_3d(v.nome,
                                 Pos(sup[1].posicao.x, sup[1].posicao.y, fra[1].posicao.y),
                                 <<sup[1].largura, fra[1].altura, lat[1].largura>>)>>

\* construir_peca_3d(nome, views): no record when a view is missing (the
\* function returns None), the part record otherwise
construir_peca_3d_from_views(v) ==
    LET sup == v.top
        lat == v.lateral
        fra == v.frontal
    IN  IF sup = <<>> \/ lat = <<>> \/ fra = <<>> THEN <<>>
        ELSE <<construir_peca_3d(v.nome,
                                 Pos(sup[1].posicao.x, sup[1].posicao.y, fra[1].posicao.y),
                                 <<sup[1].largura, fra[1].altura, lat[1].largura>>)>>

\* the build loop: the records of the parts in table order, None results
\* left out
RECURSIVE BuildFrom(_, _)
BuildFrom(vs, k) ==
    IF k > Len(vs) THEN <<>>
    ELSE LET peca == construir_peca_3d_from_views(vs[k])
         IN  (IF peca # <<>> THEN peca ELSE <<>>) \o BuildFrom(vs, k + 1)

InitBuild ==
    /\ views \in ViewTables
    /\ pieces = <<>>
    /\ connections = <<>>
    /\ pc = "extracted"
    /\ LegsIdle

BuildPieces ==
    /\ pc = "extracted"
    /\ pieces' = BuildFrom(views, 1)
    /\ pc' = "built"
    /\ UNCHANGED <<connections, views, lpieces, lpc>>

NextBuild ==
    \/ BuildPieces
    \/ NextApp

SpecBuild == InitBuild /\ [][NextBuild]_vars

LacksAView(v) == v.top = <<>> \/ v.lateral = <<>> \/ v.frontal = <<>>

\* the view table without its entry k
WithoutEntry(vs, k) == SelectSeqBy(vs, {vs[j] : j \in 1..Len(vs)} \ {vs[k]})

\* the whole pipeline on a view table: the build loop, then the stages
ProcessedFrom(vs) ==
    LET built     == BuildFrom(vs, 1)
        allocated == [i \in 1..Len(built) |-> adicionar_holes_sistematicos(built[i])]
        conns     == detect_connections_by_proximity(allocated)
        aligned   == create_aligned_connection_areas(allocated, conns)
        ensured   == ensure_all_pieces_have_connection_areas(aligned, conns)
        mapped    == map_holes_between_pieces(ensured, conns)
        cleaned   == clean_holes_outside_connection_areas(mapped)
        singer    == add_singer_holes_step7(cleaned)
    IN  IF Len(singer) > 3 THEN ensure_all_pieces_have_faces(singer) ELSE singer

\* C20: a part of the view table that lacks one of the views top, lateral,
\* frontal has no record in the part list, from the build loop to the end of
\* the run; the part list holds the records of the complete parts in table
\* order, and the finished run's part list is the one the table without the
\* incomplete part gives.
C20_IncompletePartIsDropped ==
    pc \notin {"extracted"}
    => /\ \A k \in 1..Len(views) :
              LacksAView(views[k])
              => /\ \A i \in 1..Len(pieces) : pieces[i].name # views[k].nome
                 /\ pc = "done" => pieces = ProcessedFrom(WithoutEntry(views, k))
       /\ Len(pieces) = Cardinality({k \in 1..Len(views) : ~LacksAView(views[k])})
       /\ \A i \in 1..Len(pieces) :
              \E k \in 1..Len(views) : ~LacksAView(views[k]) /\ pieces[i].name = views[k].nome

\* a finished run on a table with a part that lacks a view and two complete
\* parts: the two are in the part list, joined and drilled
C20_Witness ==
    /\ pc = "done"
    /\ \E k \in 1..Len(views) : LacksAView(views[k])
    /\ Len(pieces) = 2
    /\ connections # <<>>
    /\ \E f \in FaceSet : pieces[1].faces[f].holes # <<>>

-----------------------------------------------------------------------------
(* generate_furniture_json.py: connections from face-to-face proximity *)

\* calculate_face_to_face_distance of generate_furniture_json.py: the distance
\* of two opposite parallel faces, NoDistance where the function returns None
gfj_calculate_face_to_face_distance(bounds1, bounds2, face1_name, face2_name) ==
    LET orient1 == face_orientations(face1_name)
        orient2 == face_orientations(face2_name)
    IN  IF orient1 # orient2 THEN NoDistance
        ELSE IF orient1 = "x"
        THEN IF face1_name = "right" /\ face2_name = "left"
             THEN Abs(bounds1.max[1] - bounds2.min[1])
             ELSE IF face1_name = "left" /\ face2_name = "right"
             THEN Abs(bounds2.max[1] - bounds1.min[1])
             ELSE NoDistance
        ELSE IF orient1 = "y"
        THEN IF face1_name = "other_main" /\ face2_name = "main"
             THEN Abs(bounds1.min[2] - bounds2.max[2])
             ELSE IF face1_name = "main" /\ face2_name = "other_main"
             THEN Abs(bounds2.min[2] - bounds1.max[2])
             ELSE NoDistance
        ELSE IF face1_name = "top" /\ face2_name = "bottom"
             THEN Abs(bounds1.min[3] - bounds2.max[3])
             ELSE IF face1_name = "bottom" /\ face2_name = "top"
             THEN Abs(bounds2.min[3] - bounds1.max[3])
             ELSE NoDistance

\* get_2d_bounds: a face projected onto its own plane
get_2d_bounds(bounds, face_name) ==
    IF face_name \in {"main", "other_main"}
    THEN [x_min |-> bounds.min[1], x_max |-> bounds.max[1],
          y_min |-> bounds.min[3], y_max |-> bounds.max[3]]
    ELSE IF face_name \in {"top", "bottom"}
    THEN [x_min |-> bounds.min[1], x_max |-> bounds.max[1],
          y_min |-> bounds.min[2], y_max |-> bounds.max[2]]
    ELSE [x_min |-> bounds.min[2], x_max |-> bounds.max[2],
          y_min |-> bounds.min[3], y_max |-> bounds.max[3]]

\* calculate_face_overlap: the common rectangle of two faces and its area (in
\* squares of a hundredth of a millimetre), area 0 where the function returns
\* None
calculate_face_overlap(bounds1, bounds2, face1_name, face2_name) ==
    LET b1 == get_2d_bounds(bounds1, face1_name)
        b2 == get_2d_bounds(bounds2, face2_name)
        x_overlap == Max(0, Min(b1.x_max, b2.x_max) - Max(b1.x_min, b2.x_min))
        y_overlap == Max(0, Min(b1.y_max, b2.y_max) - Max(b1.y_min, b2.y_min))
    IN  [x_min |-> Max(b1.x_min, b2.x_min), x_max |-> Min(b1.x_max, b2.x_max),
         y_min |-> Max(b1.y_min, b2.y_min), y_max |-> Min(b1.y_max, b2.y_max),
         area  |-> IF x_overlap > 0 /\ y_overlap > 0 THEN x_overlap * y_overlap ELSE 0]

\* the face_to_face entries of find_proximity_points(piece1, piece2), in the
\* order of its two loops over the faces
find_proximity_points(piece1, piece2) ==
    LET pairs == [n \in 1..(Len(FaceNames) * Len(FaceNames)) |->
                     <<FaceNames[((n - 1) \div Len(FaceNames)) + 1],
                       FaceNames[((n - 1) % Len(FaceNames)) + 1]>>]
        close == {pr \in SeqToSet(pairs) :
                     LET bounds1 == face_bounds(piece1, pr[1])
                         bounds2 == face_bounds(piece2, pr[2])
                         face_distance == gfj_calculate_face_to_face_distance(
                                              bounds1, bounds2, pr[1], pr[2])
                     IN  /\ face_distance # NoDistance
                         /\ face_distance <= MM(5)
                         /\ calculate_face_overlap(bounds1, bounds2, pr[1], pr[2]).area
                                > 10 * MM(1) * MM(1)}
        kept == SelectSeqBy(pairs, close)
    IN  [n \in 1..Len(kept) |->
            [piece1_face |-> kept[n][1], piece2_face |-> kept[n][2],
             overlap_area |-> calculate_face_overlap(face_bounds(piece1, kept[n][1]),
                                                     face_bounds(piece2, kept[n][2]),
                                                     kept[n][1], kept[n][2])]]

\* the pairs (i, j), i < j, of the two loops over the parts, in loop order
PiecePairs(ps) ==
    LET all == [n \in 1..(Len(ps) * Len(ps)) |->
                   <<((n - 1) \div Len(ps)) + 1, ((n - 1) % Len(ps)) + 1>>]
    IN  SelectSeqBy(all, {pr \in SeqToSet(all) : pr[1] < pr[2]})

\* the loop over the proximities of one pair of parts, from proximity k on;
\* st carries connections, conn_id and seen_connections
RECURSIVE DetectProximitiesFrom(_, _, _, _, _)
DetectProximitiesFrom(proximities, k, i, j, st) ==
    IF k > Len(proximities) THEN st
    ELSE LET proximity == proximities[k]
             connection_key == {<<i, proximity.piece1_face>>, <<j, proximity.piece2_face>>}
             next ==
                 IF connection_key \notin st.seen_connections
                 THEN [connections |->
                           Append(st.connections,
                                  [id |-> st.conn_id, piece1 |-> i, piece2 |-> j,
                                   face1 |-> proximity.piece1_face,
                                   face2 |-> proximity.piece2_face,
                                   overlap_area |-> proximity.overlap_area]),
                       conn_id |-> st.conn_id + 1,
                       seen_connections |-> st.seen_connections \cup {connection_key}]
                 ELSE st
         IN  DetectProximitiesFrom(proximities, k + 1, i, j, next)

\* the loops over the pairs of parts, from pair n on
RECURSIVE DetectPairsFrom(_, _, _, _)
DetectPairsFrom(ps, pairs, n, st) ==
    IF n > Len(pairs) THEN st
    ELSE DetectPairsFrom(ps, pairs, n + 1,
             DetectProximitiesFrom(find_proximity_points(ps[pairs[n][1]], ps[pairs[n][2]]),
                                   1, pairs[n][1], pairs[n][2], st))

\* the detection with conn_id counted from 0
gfj_detect_connections_from_zero(ps) ==
    DetectPairsFrom(ps, PiecePairs(ps), 1,
                    [connections |-> <<>>, conn_id |-> 0, seen_connections |-> {}]).connections

\* detect_connections_by_proximity of generate_furniture_json.py
gfj_detect_connections_by_proximity(ps) ==
    DetectPairsFrom(ps, PiecePairs(ps), 1,
                    [connections |-> <<>>, conn_id |-> 1, seen_connections |-> {}]).connections

\* parts that touch or interpenetrate by 2 mm: the second lies on and beside
\* the first (two faces of each meet), the third stands behind the first, the
\* fourth is away from all
ProximityParts ==
    { construir_peca_3d(<<"p","e","r","n","a"," ","1">>, Pos(0, 0, 0),
                        <<MM(100), MM(200), MM(20)>>),
      construir_peca_3d(<<"t","a","m","p","o">>, Pos(MM(98), 0, MM(18)),
                        <<MM(100), MM(200), MM(20)>>),
      construir_peca_3d(<<"f","u","n","d","o">>, Pos(0, MM(200), 0),
                        <<MM(100), MM(200), MM(20)>>),
      construir_peca_3d(<<"m","e","s","a">>, Pos(MM(500), MM(500), MM(500)),
                        <<MM(200), MM(600), 1820>>) }

ProximityAssemblies ==
    UNION {{ps \in [1..n -> ProximityParts] : DistinctNames(ps)} : n \in 1..MaxPieces}

InitDetect ==
    /\ pieces \in ProximityAssemblies
    /\ connections = <<>>
    /\ pc = "built"
    /\ views = <<>>
    /\ LegsIdle

\* generate_furniture_json.py: connections = detect_connections_by_proximity(pecas_3d)
DetectByProximity ==
    /\ pc = "built"
    /\ connections' = gfj_detect_connections_by_proximity(pieces)
    /\ pc' = "detected"
    /\ UNCHANGED <<pieces, views, lpieces, lpc>>

\* app.py: connections = detect_connections_by_proximity(pecas_3d)
DetectBySpatialOrder ==
    /\ pc = "built"
    /\ connections' = detect_connections_by_proximity(pieces)
    /\ pc' = "detected"
    /\ UNCHANGED <<pieces, views, lpieces, lpc>>

NextDetect ==
    \/ DetectByProximity
    \/ DetectBySpatialOrder

SpecDetect == InitDetect /\ [][NextDetect]_vars

\* C14: the connections that detect_connections_by_proximity returns have the
\* ids 1..N in list order, and no two of them join the same unordered pair of
\* (part, face) endpoints.
C14_IdsSequentialPairsUnique ==
    /\ \A n \in 1..Len(connections) : connections[n].id = n
    /\ \A m, n \in 1..Len(connections) :
           m # n => {<<connections[m].piece1, connections[m].face1>>,
                     <<connections[m].piece2, connections[m].face2>>}
                    # {<<connections[n].piece1, connections[n].face1>>,
                       <<connections[n].piece2, connections[n].face2>>}

\* two parts joined twice: connections 1 and 2 are between the same two parts,
\* on different faces
C14_Witness ==
    /\ pc = "detected"
    /\ Len(connections) >= 3
    /\ \E n \in 1..(Len(connections) - 1) :
           /\ connections[n].piece1 = connections[n + 1].piece1
           /\ connections[n].piece2 = connections[n + 1].piece2
           /\ connections[n].face1 \in {"top", "bottom"}
           /\ connections[n + 1].face1 \in {"left", "right"}

-----------------------------------------------------------------------------
(* legs.py: pieces in space, connection faces, face coordinates *)

MIN_OVERLAP == 10

\* the Piece that process_illustrator_data builds from the extents along x, y
\* and z and the corner (x_min, y_max, z_max) read from the views
LegsPieceAt(name, x_min, dim_x, y_max, dim_y, z_max, dim_z) ==
    LET dimensions == SortDesc3(dim_x, dim_y, dim_z)
    IN  [name |-> name,
         bounds |-> [x_min |-> round_to_one_decimal(x_min),
                     x_max |-> round_to_one_decimal(x_min + dim_x),
                     y_min |-> round_to_one_decimal(y_max - dim_y),
                     y_max |-> round_to_one_decimal(y_max),
                     z_min |-> round_to_one_decimal(z_max - dim_z),
                     z_max |-> round_to_one_decimal(z_max)],
         length |-> round_to_one_decimal(dimensions[2]),
         height |-> round_to_one_decimal(dimensions[1]),
         thickness |-> round_to_one_decimal(dimensions[3]),
         faces |-> <<>>]

\* get_overlap: the empty tuple where the function returns None
get_overlap(a_min, a_max, b_min, b_max) ==
    LET o_min == Max(a_min, b_min)
        o_max == Min(a_max, b_max)
    IN  IF o_max - o_min >= MM(MIN_OVERLAP)
        THEN <<round_to_one_decimal(o_min), round_to_one_decimal(o_max)>>
        ELSE <<>>

is_leg_to_fundo(piece_1, piece_2) ==
    \/ (Contains(piece_1.name, <<"p","e","r","n","a">>) /\ Contains(piece_2.name, <<"f","u","n","d","o">>))
    \/ (Contains(piece_1.name, <<"f","u","n","d","o">>) /\ Contains(piece_2.name, <<"p","e","r","n","a">>))

\* the tuple a check_*_axis_connections function returns, in a one-element
\* list; the functions return the empty list for None
Connection(axis, face_1, face_2, min_1, max_1, min_2, max_2) ==
    <<[axis |-> axis, face_1 |-> face_1, face_2 |-> face_2,
       min_1 |-> min_1, max_1 |-> max_1, min_2 |-> min_2, max_2 |-> max_2]>>

\* "overlap if overlap else (lo, hi)"
OverlapOr(overlap, lo, hi) == IF overlap # <<>> THEN overlap ELSE <<lo, hi>>

check_y_axis_connections(piece_1, piece_2, x_overlap, y_overlap, z_overlap, tolerance) ==
    LET b1 == piece_1.bounds
        b2 == piece_2.bounds
        has_z_connection ==
            \/ z_overlap # <<>>
            \/ Abs(b1.z_min - b2.z_max) <= tolerance
            \/ Abs(b2.z_min - b1.z_max) <= tolerance
        touching_x == <<Max(b1.x_min, b2.x_min), Min(b1.x_max, b2.x_max)>>
        touching_z == <<Max(b1.z_min, b2.z_min), Min(b1.z_max, b2.z_max)>>
        x == IF x_overlap # <<>> THEN x_overlap ELSE touching_x
        z == IF z_overlap # <<>> THEN z_overlap ELSE touching_z
        \* twice the distances of the centres
        x_distance2 == Abs((b2.x_min + b2.x_max) - (b1.x_min + b1.x_max))
        z_distance2 == Abs((b2.z_min + b2.z_max) - (b1.z_min + b1.z_max))
        face_1 ==
            IF 3 * piece_1.thickness < Min(piece_1.length, piece_1.height) THEN "main"
            ELSE IF 10 * x_distance2 > 6 * piece_1.length
            THEN IF (b2.x_min + b2.x_max) < (b1.x_min + b1.x_max) THEN "left" ELSE "right"
            ELSE IF 10 * z_distance2 > 6 * piece_1.height
            THEN IF (b2.z_min + b2.z_max) < (b1.z_min + b1.z_max) THEN "top" ELSE "bottom"
            ELSE "main"
    IN  IF y_overlap = <<>> /\ b1.y_min >= b2.y_max /\ has_z_connection
        THEN IF is_leg_to_fundo(piece_1, piece_2)
             THEN Connection("y", "main", "main", x[1], x[2], z[1], z[2])
             ELSE IF x_overlap # <<>>
             THEN Connection("y", face_1, "main", x[1], x[2], z[1], z[2])
             ELSE <<>>
        ELSE IF y_overlap = <<>> /\ Abs(b1.y_max - b2.y_min) < tolerance
        THEN LET xo == OverlapOr(x_overlap, b2.x_min, b2.x_max)
                 zo == OverlapOr(z_overlap, b2.z_min, b2.z_max)
             IN  Connection("y", "main", "top", xo[1], xo[2], zo[1], zo[2])
        ELSE IF y_overlap = <<>> /\ Abs(b2.y_max - b1.y_min) < tolerance
        THEN LET xo == OverlapOr(x_overlap, b1.x_min, b1.x_max)
                 zo == OverlapOr(z_overlap, b1.z_min, b1.z_max)
             IN  Connection("y", "top", "main", xo[1], xo[2], zo[1], zo[2])
        ELSE <<>>

check_x_axis_connections(piece_1, piece_2, x_overlap, y_overlap, z_overlap, tolerance) ==
    LET b1 == piece_1.bounds
        b2 == piece_2.bounds
        yo == OverlapOr(y_overlap, Max(b1.y_min, b2.y_min), Min(b1.y_max, b2.y_max))
        zo == OverlapOr(z_overlap, Max(b1.z_min, b2.z_min), Min(b1.z_max, b2.z_max))
    IN  IF x_overlap = <<>> /\ Abs(b1.x_max - b2.x_min) <= tolerance
        THEN Connection("x", "right", "left", yo[1], yo[2], zo[1], zo[2])
        ELSE IF x_overlap = <<>> /\ Abs(b2.x_max - b1.x_min) <= tolerance
        THEN Connection("x", "left", "right", yo[1], yo[2], zo[1], zo[2])
        ELSE <<>>

\* "thickness < min(length, height) / 2"
IsThinPanel(piece) == 2 * piece.thickness < Min(piece.length, piece.height)

check_z_axis_connections(piece_1, piece_2, x_overlap, y_overlap, z_overlap, tolerance) ==
    LET b1 == piece_1.bounds
        b2 == piece_2.bounds
    IN  IF z_overlap = <<>> /\ Abs(b1.z_max - b2.z_min) <= tolerance
        THEN LET xo == OverlapOr(x_overlap, b2.x_min, b2.x_max)
                 yo == OverlapOr(y_overlap, b2.y_min, b2.y_max)
                 face_1 == IF IsThinPanel(piece_1)
                           THEN IF b1.y_min > b2.y_max THEN "bottom" ELSE "top"
                           ELSE "main"
                 face_2 == IF IsThinPanel(piece_2)
                           THEN IF b2.y_min < b1.y_max THEN "top" ELSE "bottom"
                           ELSE "main"
             IN  Connection("z", face_1, face_2, xo[1], xo[2], yo[1], yo[2])
        ELSE IF z_overlap = <<>> /\ Abs(b2.z_max - b1.z_min) <= tolerance
        THEN LET xo == OverlapOr(x_overlap, b1.x_min, b1.x_max)
                 yo == OverlapOr(y_overlap, b1.y_min, b1.y_max)
                 face_2 == IF IsThinPanel(piece_2)
                           THEN IF b2.y_min > b1.y_max THEN "bottom" ELSE "top"
                           ELSE "main"
                 face_1 == IF IsThinPanel(piece_1)
                           THEN IF b1.y_min < b2.y_max THEN "top" ELSE "bottom"
                           ELSE "main"
             IN  Connection("z", face_1, face_2, xo[1], xo[2], yo[1], yo[2])
        ELSE <<>>

\* "a or b or c" over the results of the three checks
FirstConnection(a, b, c) == IF a # <<>> THEN a ELSE IF b # <<>> THEN b ELSE c

get_connection_faces(piece_1, piece_2, primary_axis) ==
    LET b1 == piece_1.bounds
        b2 == piece_2.bounds
        x_overlap == get_overlap(b1.x_min, b1.x_max, b2.x_min, b2.x_max)
        y_overlap == get_overlap(b1.y_min, b1.y_max, b2.y_min, b2.y_max)
        z_overlap == get_overlap(b1.z_min, b1.z_max, b2.z_min, b2.z_max)
        tolerance == MM(1)
        cx == check_x_axis_connections(piece_1, piece_2, x_overlap, y_overlap, z_overlap, tolerance)
        cy == check_y_axis_connections(piece_1, piece_2, x_overlap, y_overlap, z_overlap, tolerance)
        cz == check_z_axis_connections(piece_1, piece_2, x_overlap, y_overlap, z_overlap, tolerance)
    IN  IF is_leg_to_fundo(piece_1, piece_2) /\ cy # <<>> THEN cy
        ELSE IF primary_axis = "x" THEN FirstConnection(cx, cy, cz)
        ELSE IF primary_axis = "y" THEN FirstConnection(cy, cx, cz)
        ELSE FirstConnection(cz, cy, cx)

\* calculate_face_coordinates: <<x_min, x_max, y_min, y_max>> on the face
calculate_face_coordinates(piece, face_side, axis, min_1, max_1, min_2, max_2) ==
    LET b == piece.bounds
        \* the origin subtracted from the first and from the second pair
        origin_1 == IF axis = "y"
                    THEN IF face_side \in {"main", "other_main", "top", "bottom"}
                         THEN b.x_min ELSE b.y_min
                    ELSE IF axis = "x" THEN b.y_min
                    ELSE b.x_min
        origin_2 == IF axis \in {"x", "y"} THEN b.z_min ELSE b.y_min
        \* the extents the pairs are cut to
        limit_1 == IF axis = "y"
                   THEN IF face_side \in {"main", "other_main", "top", "bottom"}
                        THEN piece.length ELSE piece.height
                   ELSE IF axis = "x"
                   THEN IF face_side \in {"main", "other_main", "left", "right"}
                        THEN piece.height ELSE piece.length
                   ELSE IF face_side \in {"main", "other_main", "top", "bottom"}
                        THEN piece.length ELSE piece.thickness
        limit_2 == IF axis = "y"
                   THEN IF face_side \in {"main", "other_main"} THEN piece.height
                        ELSE piece.thickness
                   ELSE IF axis = "x"
                   THEN IF face_side \in {"main", "other_main"} THEN piece.length
                        ELSE piece.thickness
                   ELSE IF face_side \in {"main", "other_main", "left", "right"}
                        THEN piece.height ELSE piece.thickness
        first  == <<Max(0, min_1 - origin_1), Min(limit_1, max_1 - origin_1)>>
        second == <<Max(0, min_2 - origin_2), Min(limit_2, max_2 - origin_2)>>
        \* on left and right faces of a vertical connection the second pair
        \* gives x and the first pair gives y
        swapped == axis = "y" /\ face_side \in {"left", "right"}
        x == IF swapped THEN second ELSE first
        y == IF swapped THEN first ELSE second
    IN  IF x[2] <= x[1] \/ y[2] <= y[1] \/ x[1] < 0 \/ y[1] < 0
        THEN IF face_side \in {"left", "right"}
             THEN <<0, Min(MM(50), piece.thickness), 0, Min(MM(20), piece.height)>>
             ELSE IF face_side \in {"top", "bottom"}
             THEN <<0, Min(MM(50), piece.length), 0, Min(MM(20), piece.thickness)>>
             ELSE <<0, Min(MM(50), piece.length), 0, Min(MM(20), piece.height)>>
        ELSE <<x[1], x[2], y[1], y[2]>>

-----------------------------------------------------------------------------
(* legs.py: initial holes, mapped holes, singer holes, create_connection *)

MAX_HOLE_SPACING == 200

SINGER_MIN_DISTANCE == 50

\* math.ceil(a / b) of positive values
CeilDiv(a, b) == (a + b - 1) \div b

\* the <<half_thickness, span, i>> whose position half_thickness + i * step is
\* a tie between two tenths that the binary floats round upwards; the sums
\* that are ties and not listed here are rounded downwards
StepTieRoundsUp == {<<3230, 25610, 1>>}

\* round(half_thickness + i * step, 1) with step = span / (num_holes - 1)
IntermediatePosition(half_thickness, span, i) ==
    LET num_holes == CeilDiv(span, MM(MAX_HOLE_SPACING)) + 1
        den   == num_holes - 1
        num   == (half_thickness * den) + (i * span)
        lower == (num \div (10 * den)) * 10
        rest  == num - (lower * den)
    IN  IF 2 * rest > 10 * den THEN lower + 10
        ELSE IF 2 * rest = 10 * den /\ <<half_thickness, span, i>> \in StepTieRoundsUp
        THEN lower + 10
        ELSE lower

\* the positions of the loop "for i in range(1, num_holes - 1)", two add_hole
\* calls for every i, in the order of the calls; along_x tells the loop over x
\* from the loop over y
IntermediateHoles(along_x, half_thickness, far, span) ==
    LET num_holes == CeilDiv(span, MM(MAX_HOLE_SPACING)) + 1
    IN  AsSeq([k \in 1..(2 * (num_holes - 2)) |->
            LET pos  == IntermediatePosition(half_thickness, span, (k + 1) \div 2)
                side == IF k % 2 = 1 THEN half_thickness ELSE far
            IN  IF along_x THEN <<pos, side>> ELSE <<side, pos>>])

RECURSIVE AddHolesFrom(_, _, _, _, _, _)
\* add_hole(piece, face_side, x, y, hole_type, depth=depth) for the positions
\* from the k-th on
AddHolesFrom(piece, face_side, positions, k, hole_type, depth) ==
    IF k > Len(positions) THEN piece
    ELSE AddHolesFrom(add_hole(piece, face_side, positions[k][1], positions[k][2],
                               hole_type, None, depth),
                      face_side, positions, k + 1, hole_type, depth)

add_initial_holes(piece, face_side) ==
    LET half_thickness == piece.thickness \div 2
        depth == IF face_side \in {"main", "other_main"}
                 THEN HOLE_DEPTH_MAIN ELSE HOLE_DEPTH_TOP
        corner_type == IF face_side \in {"main", "other_main"}
                       THEN "flap_corner" ELSE "top_corner"
        central_type == IF face_side \in {"main", "other_main"}
                        THEN "flap_central" ELSE "top_central"
        x_max == IF face_side \in {"main", "other_main", "top", "bottom"}
                 THEN piece.length ELSE piece.thickness
        y_max == IF face_side \in {"main", "other_main", "left", "right"}
                 THEN piece.height ELSE piece.thickness
        corners == << <<half_thickness, half_thickness>>,
                      <<half_thickness, y_max - half_thickness>>,
                      <<x_max - half_thickness, half_thickness>>,
                      <<x_max - half_thickness, y_max - half_thickness>> >>
        span_x == x_max - (2 * half_thickness)
        span_y == y_max - (2 * half_thickness)
        along_x == IF span_x > MM(MAX_HOLE_SPACING)
                   THEN IntermediateHoles(TRUE, half_thickness, y_max - half_thickness,
                                          span_x)
                   ELSE <<>>
        along_y == IF span_y > MM(MAX_HOLE_SPACING)
                   THEN IntermediateHoles(FALSE, half_thickness, x_max - half_thickness,
                                          span_y)
                   ELSE <<>>
    IN  AddHolesFrom(AddHolesFrom(piece, face_side, corners, 1, corner_type, depth),
                     face_side, along_x \o along_y, 1, central_type, depth)

\* the holes of a face, the empty list where the piece has no such face
LegsFaceHoles(piece, face_side) ==
    IF face_side \in FaceSides(piece) THEN FaceObj(piece, face_side).holes ELSE <<>>

RECURSIVE AddSingerHolesFrom(_, _, _, _)
AddSingerHolesFrom(piece, main_holes, k, opposite_face) ==
    IF k > Len(main_holes) THEN piece
    ELSE LET x == main_holes[k].x
             y == piece.height - main_holes[k].y
             half_thickness == piece.thickness \div 2
             on_flap == \/ 2 * Abs(x - half_thickness) < 10
                        \/ 2 * Abs((x - piece.length) + half_thickness) < 10
                        \/ 2 * Abs(y - half_thickness) < 10
                        \/ 2 * Abs((y - piece.height) + half_thickness) < 10
             hole_type == IF on_flap THEN "singer_flap" ELSE "singer_central"
             nearest == Min(Min(x, piece.length - x), Min(y, piece.height - y))
         IN  IF hole_type = "singer_central" /\ nearest < MM(SINGER_MIN_DISTANCE)
             THEN AddSingerHolesFrom(piece, main_holes, k + 1, opposite_face)
             ELSE AddSingerHolesFrom(
                      add_hole(piece, opposite_face, x, y, hole_type, None,
                               HOLE_DEPTH_OTHER_MAIN),
                      main_holes, k + 1, opposite_face)

\* the connection id passed to add_singer_holes is not used
add_singer_holes(piece, main_holes, connection_id, face_side) ==
    AddSingerHolesFrom(piece, main_holes, 1,
                       IF face_side = "main" THEN "other_main" ELSE "main")

RECURSIVE MapHolesFrom(_, _, _, _, _, _, _, _, _)
MapHolesFrom(piece_2, holes_1, k, connection_id, face_2, x_min, x_max, y_min_1, y_range_2) ==
    IF k > Len(holes_1) THEN piece_2
    ELSE LET y_min_2 == y_range_2[1]
             y_max_2 == y_range_2[2]
             x == holes_1[k].x - x_min
             y == IF face_2 \in {"top", "bottom"}
                  THEN (y_min_2 + y_max_2) \div 2
                  ELSE (holes_1[k].y - y_min_1) + y_min_2
             hole_type == IF holes_1[k].type = "flap_corner" THEN "top_corner"
                          ELSE IF holes_1[k].type = "flap_central" THEN "top_central"
                          ELSE "face_central"
             inside == /\ 0 <= x /\ x <= x_max - x_min
                       /\ 0 <= y /\ y <= y_max_2 - y_min_2
         IN  MapHolesFrom(IF inside
                          THEN add_hole(piece_2, face_2, x, y, hole_type, connection_id,
                                        HOLE_DEPTH_TOP)
                          ELSE piece_2,
                          holes_1, k + 1, connection_id, face_2, x_min, x_max, y_min_1,
                          y_range_2)

\* map_holes_to_connection: the two pieces afterwards
map_holes_to_connection(piece_1, piece_2, connection_id, face_1, face_2, x_min, x_max, y_min_1, y_max_1, y_min_2, y_max_2) ==
    LET face_holes == LegsFaceHoles(piece_1, face_1)
        holes_1 == SelectSeq(face_holes, LAMBDA hole : hole.connectionId = connection_id)
        mapped  == MapHolesFrom(piece_2, holes_1, 1, connection_id, face_2, x_min, x_max,
                                y_min_1, <<y_min_2, y_max_2>>)
    IN  IF face_1 \in {"main", "other_main"} /\ face_2 \in {"top", "bottom", "left", "right"}
        THEN <<add_singer_holes(piece_1, holes_1, connection_id, face_1), mapped>>
        ELSE <<piece_1, mapped>>

\* "hole['connectionId'] = connection_id" for the holes of the face that have
\* no connection id and lie in the rectangle
TagHolesInside(piece, face_side, rect, connection_id) ==
    IF face_side \notin FaceSides(piece) THEN piece
    ELSE LET holes == FaceObj(piece, face_side).holes
         IN  SetLegsFaceHoles(piece, face_side,
                 AsSeq([k \in 1..Len(holes) |->
                     IF /\ holes[k].connectionId = None
                        /\ rect[1] <= holes[k].x /\ holes[k].x <= rect[2]
                        /\ rect[3] <= holes[k].y /\ holes[k].y <= rect[4]
                     THEN [holes[k] EXCEPT !.connectionId = connection_id]
                     ELSE holes[k]]))

\* create_connection from "area_1 = calculate_face_coordinates(...)" on, for
\* the faces c found by get_connection_faces and the rectangles r1 and r2 of
\* the two pieces
ConnectFaces(piece_1, piece_2, connection_id, c, r1, r2) ==
    map_holes_to_connection(
        TagHolesInside(add_connection_area(piece_1, c.face_1, r1[1], r1[2], r1[3], r1[4],
                                           connection_id),
                       c.face_1, r1, connection_id),
        TagHolesInside(add_connection_area(piece_2, c.face_2, r2[1], r2[2], r2[3], r2[4],
                                           connection_id),
                       c.face_2, r2, connection_id),
        connection_id, c.face_1, c.face_2, r1[1], r1[2], r1[3], r1[4], r2[1], r2[4])

\* create_connection once get_connection_faces has answered
ConnectFound(piece_1, piece_2, connection_id, found) ==
    IF found = <<>> THEN <<piece_1, piece_2>>
    ELSE ConnectFaces(piece_1, piece_2, connection_id, found[1],
                      calculate_face_coordinates(piece_1, found[1].face_1, found[1].axis,
                                                 found[1].min_1, found[1].max_1,
                                                 found[1].min_2, found[1].max_2),
                      calculate_face_coordinates(piece_2, found[1].face_2, found[1].axis,
                                                 found[1].min_1, found[1].max_1,
                                                 found[1].min_2, found[1].max_2))

\* create_connection: the two pieces afterwards
create_connection(piece_1, piece_2, connection_id) ==
    ConnectFound(piece_1, piece_2, connection_id,
                 get_connection_faces(piece_1, piece_2, "z"))

-----------------------------------------------------------------------------
(* legs.py: process_illustrator_data, stage by stage *)

\* one entry of a layer: round_to_one_decimal(value * 10) of the position and
\* of the dimensions, in hundredths of a millimetre
LegsView(x, y, width, height) ==
    [x |-> round_to_one_decimal(x), y |-> round_to_one_decimal(y),
     width |-> round_to_one_decimal(width), height |-> round_to_one_decimal(height)]

\* pieces_dict[piece_name] of a part that spans x_min..x_min + dim_x,
\* y_max - dim_y..y_max and z_max - dim_z..z_max
LegsViewsOf(nome, x_min, dim_x, y_max, dim_y, z_max, dim_z) ==
    [nome  |-> nome,
     top   |-> LegsView(x_min, z_max, dim_x, dim_z),
     front |-> LegsView(x_min, y_max, dim_x, dim_y),
     side  |-> LegsView(z_max, y_max, dim_z, dim_y)]

RECURSIVE AddInitialHolesOn(_, _)
AddInitialHolesOn(piece, face_sides) ==
    IF face_sides = <<>> THEN piece
    ELSE AddInitialHolesOn(add_initial_holes(piece, Head(face_sides)), Tail(face_sides))

\* the body of the loop over pieces_dict for a part seen in all three views
LegsPieceFromViews(entry) ==
    LET dim_x == Max(entry.top.width, entry.front.width)
        dim_y == Max(entry.front.height, entry.side.height)
        dim_z == Max(entry.top.height, entry.side.width)
        piece == LegsPieceAt(entry.nome, entry.top.x, dim_x, entry.front.y, dim_y,
                             entry.top.y, dim_z)
    IN  IF entry.nome = <<"f","u","n","d","o">>
        THEN AddInitialHolesOn(piece, <<"top", "bottom", "left", "right">>)
        ELSE AddInitialHolesOn(piece,
                 <<"main", "other_main", "top", "bottom", "left", "right">>)

\* max(pieces, key=lambda p: p.length * p.height): the first of the largest
MainPieceIndex(ps) ==
    CHOOSE i \in 1..Len(ps) :
        /\ \A j \in 1..Len(ps) : ps[j].length * ps[j].height <= ps[i].length * ps[i].height
        /\ \A j \in 1..(i - 1) : ps[j].length * ps[j].height < ps[i].length * ps[i].height

\* the bounds moved so that the main piece starts at the origin
ShiftBounds(piece, main_bounds) ==
    [piece EXCEPT !.bounds =
        [x_min |-> round_to_one_decimal(piece.bounds.x_min - main_bounds.x_min),
         x_max |-> round_to_one_decimal(piece.bounds.x_max - main_bounds.x_min),
         y_min |-> round_to_one_decimal(piece.bounds.y_min - main_bounds.y_min),
         y_max |-> round_to_one_decimal(piece.bounds.y_max - main_bounds.y_min),
         z_min |-> round_to_one_decimal(piece.bounds.z_min - main_bounds.z_min),
         z_max |-> round_to_one_decimal(piece.bounds.z_max - main_bounds.z_min)]]

should_allow_secondary_connection(piece1, piece2, axis) ==
    LET horizontal(piece) ==
            LET b == piece.bounds
            IN  10 * (b.y_max - b.y_min) < 3 * Max(b.x_max - b.x_min, b.z_max - b.z_min)
    IN  IF /\ Contains(piece1.name, <<"p","e","r","n","a">>)
           /\ Contains(piece2.name, <<"p","e","r","n","a">>)
        THEN FALSE
        ELSE IF axis \in {"x", "z"} THEN TRUE
        ELSE IF axis = "y" THEN horizontal(piece1) /\ horizontal(piece2)
        ELSE FALSE

\* connection_key of a detected connection
ConnectionKey(piece_1, piece_2, c) == <<piece_1.name, piece_2.name, c.axis, c.face_1, c.face_2>>

\* the pieces and all_connections once create_connection has returned the two
\* pieces in both and the key is appended
WithConnection(st, i, j, key, both) ==
    [ps |-> SetPiece(SetPiece(st.ps, i, both[1]), j, both[2]),
     all_connections |-> Append(st.all_connections, key)]

\* the body of a loop of process_single_axis_connections once
\* get_connection_faces has answered
VisitFound(st, i, j, secondary, found) ==
    IF found = <<>> THEN st
    ELSE IF ConnectionKey(st.ps[i], st.ps[j], found[1]) \in SeqToSet(st.all_connections)
    THEN st
    ELSE IF secondary /\ ~should_allow_secondary_connection(st.ps[i], st.ps[j],
                                                            found[1].axis)
    THEN st
    ELSE WithConnection(st, i, j, ConnectionKey(st.ps[i], st.ps[j], found[1]),
                        create_connection(st.ps[i], st.ps[j],
                                          Len(st.all_connections) + 1))

\* one visit of a loop of process_single_axis_connections to the pair (i, j):
\* st holds the pieces and all_connections
VisitPair(st, i, j, primary_axis, secondary) ==
    VisitFound(st, i, j, secondary,
               get_connection_faces(st.ps[i], st.ps[j], primary_axis))

RECURSIVE PrimaryFrom(_, _, _)
\* "for piece in pieces: if piece != main_piece"
PrimaryFrom(st, main, j) ==
    IF j > Len(st.ps) THEN st
    ELSE PrimaryFrom(IF st.ps[j] # st.ps[main] THEN VisitPair(st, main, j, "z", FALSE)
                     ELSE st,
                     main, j + 1)

RECURSIVE SecondaryFrom(_, _, _, _)
\* the pairs i < j of pieces other than the main piece
SecondaryFrom(st, main, i, j) ==
    IF i > Len(st.ps) THEN st
    ELSE IF j > Len(st.ps) THEN SecondaryFrom(st, main, i + 1, 1)
    ELSE SecondaryFrom(IF i < j /\ st.ps[i] # st.ps[main] /\ st.ps[j] # st.ps[main]
                       THEN VisitPair(st, i, j, "z", TRUE)
                       ELSE st,
                       main, i, j + 1)

RECURSIVE LegsToFundoFrom(_, _, _)
\* every 'perna' against the first 'fundo'
LegsToFundoFrom(st, fundo, i) ==
    IF i > Len(st.ps) THEN st
    ELSE LegsToFundoFrom(IF Contains(st.ps[i].name, <<"p","e","r","n","a">>)
                         THEN VisitPair(st, i, fundo, "y", FALSE)
                         ELSE st,
                         fundo, i + 1)

\* the last loop of process_single_axis_connections: the legs against the
\* first piece named 'fundo', if there is one
LegsToFundo(st) ==
    LET fundos == {i \in 1..Len(st.ps) : Contains(st.ps[i].name, <<"f","u","n","d","o">>)}
    IN  IF fundos = {} THEN st
        ELSE LegsToFundoFrom(st, CHOOSE i \in fundos : \A j \in fundos : i <= j, 1)

\* process_single_axis_connections: the pieces and all_connections at its
\* end; the connection id it returns is 1 + len(all_connections)
process_single_axis_connections(ps, main) ==
    LegsToFundo(SecondaryFrom(PrimaryFrom([ps |-> ps, all_connections |-> <<>>], main, 1),
                              main, 1, 1))

\* the holes of the edge faces of a piece that select_model_template counts
TopHoleCount(piece) ==
    LET counted(face) ==
            IF face.faceSide \in {"top", "bottom", "left", "right"}
            THEN Cardinality({k \in 1..Len(face.holes) :
                                 face.holes[k].type \in {"top_corner", "top_central"}})
            ELSE 0
        sum[i \in 0..Len(piece.faces)] ==
            IF i = 0 THEN 0 ELSE sum[i - 1] + counted(piece.faces[i])
    IN  sum[Len(piece.faces)]

\* the thicknesses the templates are made for
TemplateThicknesses == <<17, 20, 25, 30>>

\* select_model_template: the template thickness, in millimetres
select_model_template(ps) ==
    LET thicknesses == {ps[i].thickness : i \in {j \in 1..Len(ps) : TopHoleCount(ps[j]) > 0}}
        thickness_counts(t) ==
            LET total[i \in 0..Len(ps)] ==
                    IF i = 0 THEN 0
                    ELSE total[i - 1] + (IF ps[i].thickness = t THEN TopHoleCount(ps[i]) ELSE 0)
            IN  total[Len(ps)]
        candidates == {t \in thicknesses :
                          \A u \in thicknesses : thickness_counts(u) <= thickness_counts(t)}
        smallest == CHOOSE t \in candidates : \A u \in candidates : t <= u
        nearest == CHOOSE k \in 1..Len(TemplateThicknesses) :
                       /\ \A m \in 1..Len(TemplateThicknesses) :
                              Abs(MM(TemplateThicknesses[k]) - smallest)
                                  <= Abs(MM(TemplateThicknesses[m]) - smallest)
                       /\ \A m \in 1..(k - 1) :
                              Abs(MM(TemplateThicknesses[k]) - smallest)
                                  < Abs(MM(TemplateThicknesses[m]) - smallest)
    IN  IF thicknesses = {} THEN 20 ELSE TemplateThicknesses[nearest]

RECURSIVE MoveTopHolesFrom(_, _, _)
\* the add_hole calls of adjust_holes_for_template for the holes of one face
MoveTopHolesFrom(piece, holes, k) ==
    IF k > Len(holes) THEN piece
    ELSE IF holes[k].type \in {"top_corner", "top_central"}
    THEN LET on_main == add_hole(piece, "main", holes[k].x, piece.height \div 2,
                                 "flap_central", holes[k].connectionId, HOLE_DEPTH_MAIN)
             on_both == add_hole(on_main, "other_main", holes[k].x, piece.height \div 2,
                                 "flap_central", holes[k].connectionId, HOLE_DEPTH_MAIN)
         IN  MoveTopHolesFrom(on_both, holes, k + 1)
    ELSE MoveTopHolesFrom(piece, holes, k + 1)

RECURSIVE AdjustFacesFrom(_, _)
\* "for face in piece.faces" from the face at index i on; the faces add_hole
\* appends are visited too
AdjustFacesFrom(piece, i) ==
    IF i > Len(piece.faces) THEN piece
    ELSE IF piece.faces[i].faceSide \in {"top", "bottom", "left", "right"}
    THEN LET holes == piece.faces[i].holes
             moved == MoveTopHolesFrom(piece, holes, 1)
             new_holes == SelectSeq(holes,
                              LAMBDA hole : hole.type \notin {"top_corner", "top_central"})
         IN  AdjustFacesFrom(SetLegsFaceHoles(moved, piece.faces[i].faceSide, new_holes),
                             i + 1)
    ELSE AdjustFacesFrom(piece, i + 1)

\* adjust_holes_for_template; template_thickness in millimetres
adjust_holes_for_template(ps, template_thickness) ==
    AsSeq([i \in 1..Len(ps) |->
        IF ps[i].thickness > MM(template_thickness) + 5
        THEN AdjustFacesFrom(ps[i], 1)
        ELSE ps[i]])

\* the parts the layers of the input show: a leg, a thick side panel beside
\* it, a shelf on top of both, a top above and a fundo below the leg
IllustratorParts ==
    { LegsViewsOf(<<"p","e","r","n","a"," ","2">>, 32070, MM(40), 32070, 32070, MM(220), MM(20)),
      LegsViewsOf(<<"s","u","b","t","a","m","p","o">>, 32070, MM(200), 34070, MM(20), MM(220), 6460),
      LegsViewsOf(<<"l","a","t","e","r","a","l">>, 32070, 6460, 32070, 32070, MM(200), MM(200)),
      LegsViewsOf(<<"t","a","m","p","o">>, MM(300), MM(400), 36070, MM(20), MM(300), MM(300)),
      LegsViewsOf(<<"f","u","n","d","o">>, 32070, MM(200), 0, MM(20), MM(220), MM(100)) }

MaxIllustratorParts == 3

\* the lists of two to MaxIllustratorParts parts with different names, in
\* every order
IllustratorInputs ==
    UNION { {vs \in [1..n -> IllustratorParts] :
                \A i, j \in 1..n : i # j => vs[i].nome # vs[j].nome}
            : n \in 2..MaxIllustratorParts }

\* process_illustrator_data has read the layers into pieces_dict (views); the
\* list all_connections of process_single_axis_connections is kept in
\* connections
InitIllustrator ==
    /\ views \in IllustratorInputs
    /\ connections = <<>>
    /\ pieces = <<>>
    /\ pc = "idle"
    /\ lpieces = <<>>
    /\ lpc = "layers"

\* the loop that builds a Piece with its initial holes for every part; every
\* part drawn here is seen in all three views
IllustratorBuild ==
    /\ lpc = "layers"
    /\ lpieces' = [i \in 1..Len(views) |-> LegsPieceFromViews(views[i])]
    /\ lpc' = "built"
    /\ UNCHANGED <<pieces, connections, pc, views>>

\* the main piece is moved to the origin
IllustratorShift ==
    /\ lpc = "built"
    /\ lpieces' = [i \in 1..Len(lpieces) |->
                      ShiftBounds(lpieces[i], lpieces[MainPieceIndex(lpieces)].bounds)]
    /\ lpc' = "shifted"
    /\ UNCHANGED <<pieces, connections, pc, views>>

IllustratorConnect ==
    /\ lpc = "shifted"
    /\ LET done == process_single_axis_connections(lpieces, MainPieceIndex(lpieces))
       IN  /\ lpieces' = done.ps
           /\ connections' = done.all_connections
    /\ lpc' = "connected"
    /\ UNCHANGED <<pieces, pc, views>>

IllustratorSystematic ==
    /\ lpc = "connected"
    /\ lpieces' = create_systematic_connection_areas(lpieces, Len(connections) + 1)
    /\ lpc' = "areas"
    /\ UNCHANGED <<pieces, connections, pc, views>>

IllustratorClean ==
    /\ lpc = "areas"
    /\ lpieces' = [i \in 1..Len(lpieces) |->
                      legs_clean_holes_outside_connection_areas(lpieces[i])]
    /\ lpc' = "cleaned"
    /\ UNCHANGED <<pieces, connections, pc, views>>

IllustratorAdjust ==
    /\ lpc = "cleaned"
    /\ lpieces' = adjust_holes_for_template(lpieces, select_model_template(lpieces))
    /\ lpc' = "adjusted"
    /\ UNCHANGED <<pieces, connections, pc, views>>

NextIllustrator ==
    \/ IllustratorBuild
    \/ IllustratorShift
    \/ IllustratorConnect
    \/ IllustratorSystematic
    \/ IllustratorClean
    \/ IllustratorAdjust

SpecIllustrator == InitIllustrator /\ [][NextIllustrator]_vars

-----------------------------------------------------------------------------
(* legs.py: the face-coordinate transform and the singer holes *)

\* the pairs of pieces process_single_axis_connections has connected
ConnectedPairs ==
    {pair \in (1..Len(lpieces)) \X (1..Len(lpieces)) :
        /\ pair[1] # pair[2]
        /\ get_connection_faces(lpieces[pair[1]], lpieces[pair[2]], "z") # <<>>
        /\ ConnectionKey(lpieces[pair[1]], lpieces[pair[2]],
                         get_connection_faces(lpieces[pair[1]], lpieces[pair[2]], "z")[1])
               \in SeqToSet(connections)}

\* the corner of the piece on the two axes that span the overlap of a
\* connection along the given axis
MinCorner(piece, axis) ==
    IF axis = "z" THEN <<piece.bounds.x_min, piece.bounds.y_min>>
    ELSE IF axis = "y" THEN <<piece.bounds.x_min, piece.bounds.z_min>>
    ELSE <<piece.bounds.y_min, piece.bounds.z_min>>

\* a face-local interval that, moved by the origin, is the global interval
\* within 0.1 mm
MovesBackTo(lo, hi, origin, g_lo, g_hi) ==
    /\ Abs((lo + origin) - g_lo) <= 10
    /\ Abs((hi + origin) - g_hi) <= 10

\* the face rectangle of the piece gives back the overlap of the connection;
\* the two intervals may come in either order
RoundTrips(piece, face_side, c) ==
    LET r == calculate_face_coordinates(piece, face_side, c.axis,
                                        c.min_1, c.max_1, c.min_2, c.max_2)
        o == MinCorner(piece, c.axis)
    IN  \/ /\ MovesBackTo(r[1], r[2], o[1], c.min_1, c.max_1)
           /\ MovesBackTo(r[3], r[4], o[2], c.min_2, c.max_2)
        \/ /\ MovesBackTo(r[3], r[4], o[1], c.min_1, c.max_1)
           /\ MovesBackTo(r[1], r[2], o[2], c.min_2, c.max_2)

\* C16: for every connection that get_connection_faces returns to
\* create_connection, the rectangle calculate_face_coordinates gives for either
\* piece is the overlap relative to the min corner of the piece: adding the
\* min corner back reproduces the overlap within 0.1 mm
C16_FaceCoordinatesRoundTrip ==
    lpc = "connected" =>
        \A pair \in ConnectedPairs :
            LET c == get_connection_faces(lpieces[pair[1]], lpieces[pair[2]], "z")[1]
            IN  /\ RoundTrips(lpieces[pair[1]], c.face_1, c)
                /\ RoundTrips(lpieces[pair[2]], c.face_2, c)

SingerTypes == {"singer_flap", "singer_central", "singer_channel"}

\* no singer hole of a legs.py piece has a connection id
LegsSingerHolesFree ==
    \A i \in 1..Len(lpieces) :
        \A f \in 1..Len(lpieces[i].faces) :
            \A k \in 1..Len(lpieces[i].faces[f].holes) :
                lpieces[i].faces[f].holes[k].type \in SingerTypes
                    => lpieces[i].faces[f].holes[k].connectionId = None

\* no singer hole of an app.py piece has a connection id
AppSingerHolesFree ==
    \A i \in 1..Len(pieces) :
        \A face_name \in DOMAIN pieces[i].faces :
            \A k \in 1..Len(pieces[i].faces[face_name].holes) :
                pieces[i].faces[face_name].holes[k].type \in SingerTypes
                    => pieces[i].faces[face_name].holes[k].connectionId = None

\* C13: in every state of process_illustrator_data and of
\* processar_json_entrada, no hole of type singer_flap, singer_central or
\* singer_channel has a connection id
C13_SingerHolesCarryNoId == LegsSingerHolesFree /\ AppSingerHolesFree

-----------------------------------------------------------------------------
(* app.py: construir_peca_3d on the measurements of one part *)

\* mm(valor) for a measurement whose tenfold is valor
mm(valor) == Arredondar(valor)

\* the three extents of a part as the views give them, times ten: around
\* 18 mm on the 0.1 mm grid, and two larger ones
DimensionInputs == {1790, 1810, 1820, 1830, 1840, 1850, MM(20), MM(400)}

InitDimensions ==
    /\ views \in {<<dims>> : dims \in [1..3 -> DimensionInputs]}
    /\ pieces = <<>>
    /\ connections = <<>>
    /\ pc = "extracted"
    /\ LegsIdle

\* construir_peca_3d for a part seen in all three views
BuildDimensions ==
    /\ pc = "extracted"
    /\ pieces' = <<construir_peca_3d(<<"t","a","m","p","o">>, Pos(0, 0, 0),
                                     <<mm(views[1][1]), mm(views[1][2]), mm(views[1][3])>>)>>
    /\ pc' = "built"
    /\ UNCHANGED <<connections, views, lpieces, lpc>>

NextDimensions == BuildDimensions

SpecDimensions == InitDimensions /\ [][NextDimensions]_vars

\* C21: every part construir_peca_3d builds has thickness <= length <= height
\* and a half_thickness equal to thickness / 2 rounded to one decimal
C21_HalfThicknessIsRoundedHalf ==
    \A i \in 1..Len(pieces) :
        /\ pieces[i].thickness <= pieces[i].length
        /\ pieces[i].length <= pieces[i].height
        /\ pieces[i].half_thickness = Round1(pieces[i].thickness \div 2)

-----------------------------------------------------------------------------
(* adicionar_holes_sistematicos on single legs *)

\* extents as mm() returns them: legs too short for two holes, legs whose two
\* holes would be 6 and exactly 8 mm apart, and long ones
LegDims == {MM(10), MM(12), 1820, MM(20), 2080, MM(26), MM(28), 2880, MM(40), MM(700)}

\* a leg by its name, and a part that is a leg only by its dimensions
LegNames == {<<"p","e","r","n","a"," ","1">>, <<"l","a","t","e","r","a","l">>}

InitLegAlloc ==
    /\ \E nome \in LegNames, dims \in [1..3 -> LegDims] :
           pieces = <<construir_peca_3d(nome, Pos(0, 0, 0), dims)>>
    /\ connections = <<>>
    /\ pc = "built"
    /\ views = <<>>
    /\ LegsIdle

NextLegAlloc == AllocateHoles

SpecLegAlloc == InitLegAlloc /\ [][NextLegAlloc]_vars

\* two holes half_thickness away from the two ends of the top face are at
\* least 8 mm apart
TwoHolesFit(peca) == peca.length - (2 * peca.half_thickness) >= MM(8)

\* C22: after adicionar_holes_sistematicos a leg has holes on its top face
\* only; they are one or two top_corner holes; two holes are at least 8 mm
\* apart; and there is a single hole exactly when two holes do not fit 8 mm
\* apart, and it is then centred at x = length / 2 (as exactly as the stored
\* coordinates allow, which are rounded by up to 0.15 mm)
C22_LegHolesOnTopOnly ==
    pc = "allocated" =>
        \A i \in 1..Len(pieces) : is_leg_piece(pieces[i]) =>
            LET holes == pieces[i].faces["top"].holes
            IN  /\ \A f \in FaceSet \ {"top"} : pieces[i].faces[f].holes = <<>>
                /\ Len(holes) \in {1, 2}
                /\ \A k \in 1..Len(holes) : holes[k].type = "top_corner"
                /\ Len(holes) = 2 => Abs(holes[2].x - holes[1].x) >= MM(8)
                /\ Len(holes) = 1 <=> ~TwoHolesFit(pieces[i])
                /\ Len(holes) = 1 => Abs((2 * holes[1].x) - pieces[i].length) <= 30

-----------------------------------------------------------------------------
(* app.py: a stage run a second time *)

\* the hole list and the connection-area list of every face of every part
FaceLists(ps) ==
    [i \in 1..Len(ps) |->
        [f \in FaceSet |-> <<ps[i].faces[f].holes, ps[i].faces[f].connectionAreas>>]]

\* C23: each of the systematic allocator, the hole mapper and the singer
\* mirrorer, run a second time directly after its first run, leaves the hole
\* list and the connection-area list of every face as they are
C23_StagesAreIdempotent ==
    /\ pc = "allocated" =>
           FaceLists([i \in 1..Len(pieces) |-> adicionar_holes_sistematicos(pieces[i])])
               = FaceLists(pieces)
    /\ pc = "mapped" =>
           FaceLists(map_holes_between_pieces(pieces, connections)) = FaceLists(pieces)
    /\ pc = "singer" =>
           FaceLists(add_singer_holes_step7(pieces)) = FaceLists(pieces)

-----------------------------------------------------------------------------
(* processar_json_entrada: the order of the stages of a connection *)

\* the connection areas and the holes that carry a connection id, with the
\* part and the face they are on
AreasWithId(ps) ==
    UNION {{<<i, f, ps[i].faces[f].connectionAreas[k]>> :
               k \in {n \in 1..Len(ps[i].faces[f].connectionAreas) :
                         ps[i].faces[f].connectionAreas[n].connectionId # None}} :
           <<i, f>> \in (1..Len(ps)) \X FaceSet}

HolesWithId(ps) ==
    UNION {{<<i, f, ps[i].faces[f].holes[k]>> :
               k \in {n \in 1..Len(ps[i].faces[f].holes) :
                         ps[i].faces[f].holes[n].connectionId # None}} :
           <<i, f>> \in (1..Len(ps)) \X FaceSet}

\* both connecting faces of the connection hold a connection area
BothFacesHaveAnArea(ps, conn) ==
    /\ ps[conn.piece1].faces[conn.face1].connectionAreas # <<>>
    /\ ps[conn.piece2].faces[conn.face2].connectionAreas # <<>>

\* C24: a connection only moves forward through detected, area_created,
\* holes_mapped, cleaned: when map_holes_between_pieces runs, both connecting
\* faces of every connection hold a connection area; cleanup runs on mapped
\* holes only; and a stage that runs after cleanup adds no connection area
\* and no hole that carries a connection id
C24_ConnectionsOnlyMoveForward ==
    [][/\ (pc = "ensured" /\ pc' = "mapped") =>
              (\A c \in 1..Len(connections) :
                   BothFacesHaveAnArea(pieces, connections[c]))
       /\ pc' = "cleaned" => pc = "mapped"
       /\ pc \in {"cleaned", "singer"} =>
              /\ AreasWithId(pieces') \subseteq AreasWithId(pieces)
              /\ HolesWithId(pieces') \subseteq HolesWithId(pieces)]_vars


\* the extent of the named face along its own x: the length on the main, top
\* and bottom faces, the thickness on the left and right faces
FaceWidth(piece, face_side) ==
    IF face_side \in {"left", "right"} THEN piece.thickness ELSE piece.length

\* the extent of the named face along its own y: the thickness on the top and
\* bottom faces, the height on the others
FaceHeight(piece, face_side) ==
    IF face_side \in {"top", "bottom"} THEN piece.thickness ELSE piece.height

InsideFace(piece, face_side, c) ==
    LET r == calculate_face_coordinates(piece, face_side, c.axis,
                                        c.min_1, c.max_1, c.min_2, c.max_2)
    IN  /\ 0 <= r[1] /\ r[1] < r[2] /\ r[2] <= FaceWidth(piece, face_side)
        /\ 0 <= r[3] /\ r[3] < r[4] /\ r[4] <= FaceHeight(piece, face_side)

\* C25: for every connection that get_connection_faces returns to
\* create_connection, the rectangle calculate_face_coordinates gives for either
\* piece is not empty and lies inside the named face: 0 <= x_min < x_max <=
\* width of the face and 0 <= y_min < y_max <= height of the face
C25_FaceCoordinatesInsideFace ==
    lpc = "connected" =>
        \A pair \in ConnectedPairs :
            LET c == get_connection_faces(lpieces[pair[1]], lpieces[pair[2]], "z")[1]
            IN  /\ InsideFace(lpieces[pair[1]], c.face_1, c)
                /\ InsideFace(lpieces[pair[2]], c.face_2, c)


\* two legs that stand side by side along x and a shelf that starts 4.1 mm
\* to the right of the edge of the tampo, with the parts of IllustratorParts
FaceParts ==
    IllustratorParts \cup
    { LegsViewsOf(<<"p","r","a","t","e","l","e","i","r","a">>, 30410, MM(300), 34070, MM(20), MM(220), 6460),
      LegsViewsOf(<<"p","e","r","n","a"," ","1">>, 0, MM(40), MM(400), MM(400), MM(40), MM(40)),
      LegsViewsOf(<<"p","e","r","n","a"," ","3">>, MM(40), MM(40), MM(400), MM(400), MM(40), MM(40)) }

\* the layers show two parts with different names
InitFaces ==
    /\ views \in {vs \in [1..2 -> FaceParts] : vs[1].nome # vs[2].nome}
    /\ connections = <<>>
    /\ pieces = <<>>
    /\ pc = "idle"
    /\ lpieces = <<>>
    /\ lpc = "layers"

NextFaces ==
    \/ IllustratorBuild
    \/ IllustratorShift
    \/ IllustratorConnect

SpecFaces == InitFaces /\ [][NextFaces]_vars


-----------------------------------------------------------------------------
(* legs.py: one add_connection_area call on a face that holds an area *)

\* the edges of the rectangles handed to add_connection_area, on the 0.1 mm
\* grid: some are 2.0 mm and 2.1 mm apart
StoreEdges == {0, 390, 400, 600, 610, MM(20), 6300, 6510}

\* the calls (x_min, x_max, y_min, y_max) with x_min < x_max and y_min < y_max
StoreCalls ==
    {r \in StoreEdges \X StoreEdges \X {0, 6300} \X {MM(50), 6510} :
        r[1] < r[2] /\ r[3] < r[4]}

\* a panel whose main face holds the area of an earlier connection
StorePiece ==
    add_connection_area(LegsPiece(<<"t","a","m","p","o">>, MM(100), MM(100), MM(20)),
                        "main", MM(70), MM(99), MM(70), MM(99), FirstConnectionId)

\* the rectangle of the call is kept in views
InitStore ==
    /\ views \in {<<r>> : r \in StoreCalls}
    /\ lpieces = <<StorePiece>>
    /\ lpc = "detect"
    /\ pieces = <<>>
    /\ connections = <<>>
    /\ pc = "idle"

StoreConnectionArea ==
    /\ lpc = "detect"
    /\ lpieces' = <<add_connection_area(lpieces[1], "main", views[1][1], views[1][2],
                                        views[1][3], views[1][4], FirstConnectionId + 1)>>
    /\ lpc' = "stored"
    /\ UNCHANGED <<pieces, connections, pc, views>>

NextStore == StoreConnectionArea

SpecStore == InitStore /\ [][NextStore]_vars

\* the rectangle is empty once MARGIN is taken off on all four sides
EmptyAfterInset(r) == r[2] - r[1] <= 2 * MARGIN \/ r[4] - r[3] <= 2 * MARGIN

\* C26: every connection area that add_connection_area has stored has
\* x_min < x_max and y_min < y_max in its stored coordinates, and the call
\* with a rectangle that is empty after the inset of 1 mm on all four sides
\* leaves the piece as it was
C26_StoredAreasAreNotEmpty ==
    /\ \A f \in 1..Len(lpieces[1].faces) :
           \A a \in 1..Len(lpieces[1].faces[f].connectionAreas) :
               LET area == lpieces[1].faces[f].connectionAreas[a]
               IN  area.x_min < area.x_max /\ area.y_min < area.y_max
    /\ (lpc = "stored" /\ EmptyAfterInset(views[1])) => lpieces[1] = StorePiece


\* the extents max - min of the bounds along x, y and z
Extents(bounds) ==
    <<bounds.x_max - bounds.x_min, bounds.y_max - bounds.y_min,
      bounds.z_max - bounds.z_min>>

\* C27: after the bounds have been moved to the origin of the main piece and
\* rounded again, the min corner of the main piece is (0, 0, 0) and every
\* piece has on every axis the extent max - min it had before the move
C27_ReoriginKeepsExtents ==
    lpc = "shifted" =>
        /\ LET main == lpieces[MainPieceIndex(lpieces)].bounds
           IN  main.x_min = 0 /\ main.y_min = 0 /\ main.z_min = 0
        /\ \A i \in 1..Len(lpieces) :
               Extents(lpieces[i].bounds) = Extents(LegsPieceFromViews(views[i]).bounds)


\* C28: when map_holes_between_pieces starts, its clearing loop leaves the
\* hole list of every face of every part that is_leg_piece accepts as it is
C28_ClearingKeepsLegHoles ==
    pc = "ensured" =>
        \A i \in 1..Len(pieces) :
            is_leg_piece(pieces[i]) =>
                \A f \in FaceSet :
                    ClearHolesInAreas(pieces[i]).faces[f].holes = pieces[i].faces[f].holes


\* the holes of the face of the piece "after" that map_holes_to_connection has
\* appended or given a connection id, "before" being the piece when
\* map_holes_to_connection is called
HolesMapped(before, after, face_side) ==
    LET old == LegsFaceHoles(before, face_side)
        new == LegsFaceHoles(after, face_side)
    IN  {new[k] : k \in {k \in 1..Len(new) : k > Len(old) \/ new[k] # old[k]}}

\* the holes create_connection maps to piece_2 lie in an area of the
\* connection on the connecting face of piece_2
MappedInsideArea(piece_1, piece_2, connection_id, c, r1, r2) ==
    LET before == TagHolesInside(add_connection_area(piece_2, c.face_2, r2[1], r2[2],
                                                     r2[3], r2[4], connection_id),
                                 c.face_2, r2, connection_id)
        after  == ConnectFaces(piece_1, piece_2, connection_id, c, r1, r2)[2]
    IN  \A hole \in HolesMapped(before, after, c.face_2) :
            InAreaOfSameId(FaceObj(after, c.face_2).connectionAreas, hole)

\* the first piece that is not the main piece
FirstOther(ps) == CHOOSE j \in 1..Len(ps) : j # MainPieceIndex(ps) /\ \A k \in 1..(j - 1) : k = MainPieceIndex(ps)

\* C29: in the first create_connection call of process_single_axis_connections
\* (the main piece with the first other piece, connection 1), every hole that
\* map_holes_to_connection adds to the connecting face of piece_2 lies in the
\* connection area stored on that face for the connection, so that
\* clean_holes_outside_connection_areas keeps it
C29_MappedHolesInsideArea ==
    lpc = "shifted" =>
        LET piece_1 == lpieces[MainPieceIndex(lpieces)]
            piece_2 == lpieces[FirstOther(lpieces)]
            found   == get_connection_faces(piece_1, piece_2, "z")
        IN  found # <<>> =>
                MappedInsideArea(piece_1, piece_2, FirstConnectionId, found[1],
                    calculate_face_coordinates(piece_1, found[1].face_1, found[1].axis,
                                               found[1].min_1, found[1].max_1,
                                               found[1].min_2, found[1].max_2),
                    calculate_face_coordinates(piece_2, found[1].face_2, found[1].axis,
                                               found[1].min_1, found[1].max_1,
                                               found[1].min_2, found[1].max_2))


\* C30: no connection that detect_connections_by_proximity returns joins a part
\* to itself, and no part is accepted by both is_leg_piece and is_panel_piece
C30_NoSelfConnection ==
    /\ \A c \in 1..Len(connections) : connections[c].piece1 # connections[c].piece2
    /\ \A i \in 1..Len(pieces) : ~(is_leg_piece(pieces[i]) /\ is_panel_piece(pieces[i]))

====
